---- MODULE Spec2Model ----
(***************************************************************************)
(* CKOS Lock System: the lock session engine described in the Lock System  *)
(* Design Document (LockSession_t, the LockSys_* operations, break and     *)
(* penalty rules, rolling-key window validation) as a state machine.       *)
(***************************************************************************)
EXTENDS Integers, Sequences, FiniteSets, TLC

(***************************************************************************)
(* Bounds.  uint32_t timestamps are kept as integers modulo U32_MOD, a     *)
(* scaled-down 2^32; durations are scaled with it and keep their order     *)
(* MinDuration < YearDuration < MaxDuration < U32_MOD.                     *)
(***************************************************************************)
U32_MOD == 6
MaxNow == 3
MinDuration == 2
YearDuration == 3
MaxDuration == 4
MaxBreakAllowed == 1
MaxDelta == 1
KEY_WINDOW_SIZE == 3
MaxKeyIndex == 2
NumKeys == 4
MaxPayloadLen == 2
MaxRetries == 2
CONFIG_DISPLAY_COMMAND_QUEUE_SIZE == 3
MaxData == 1
MAX_GAMES_PER_LOCK == 2
BUTTON_DEBOUNCE_MS == 1
TICK_MOD == 2
MaxOffset == 1
MAIN_MENU_COUNT == 3
SETTINGS_COUNT == 3
max_visible_menu_items == 2
max_visible_settings_items == 2
MaxPending == 0
MaxUnconsumed == 4
MaxAccumulated == 2

VARIABLES session, store, now, last_update_utc, derive, cmd, arg, outcome,
          break_total, max_accepted, counters, store_ok, store_check,
          blob, load_result, alarm, request, decoded,
          hlm_state, current_retry_count, max_retries, notify,
          command_queue, queue_head, queue_tail, queue_count,
          current_screen, current_data, stack_data, supplied, update_task,
          ckos_power_insomnia_level, idle_state, holding,
          g_app_state, accepted_press, stored_counters, completing

\* HardwareService_Task: the hardware lock mechanism's unlock handler.
hlm == <<hlm_state, current_retry_count, max_retries, notify>>

\* Display_Task and the memory its commands point into.
display == <<command_queue, queue_head, queue_tail, queue_count,
             current_screen, current_data, stack_data, supplied, update_task>>

\* Sleep suppression and the idle path.
power == <<ckos_power_insomnia_level, idle_state, holding>>

\* The application logic: g_app_state, and whether a press has been
\* processed since app_logic_init.
app == <<g_app_state, accepted_press>>

\* The TimeCounters blob in the store, and the session whose physical
\* unlock was confirmed.
durable == <<stored_counters, completing>>

others == <<request, decoded, app, durable, durable, hlm, display, power>>

vars == <<session, store, now, last_update_utc, derive, cmd, arg, outcome,
          break_total, max_accepted, counters, store_ok, store_check,
          blob, load_result, alarm, others>>

\* What no engine command changes: the health of the store, the blob
\* under CRC verification, and the other tasks.
aside == <<store_ok, blob, load_result, others>>

(***************************************************************************)
(* Data model                                                              *)
(***************************************************************************)
LockType_t == {"LOCK_TYPE_NONE", "LOCK_TYPE_AGENT", "LOCK_TYPE_CUSTOM",
               "LOCK_TYPE_KEYHOLDER_BASIC", "LOCK_TYPE_KEYHOLDER_REMOTE"}

LockOperationalState_t == {"LOCK_STATE_UNLOCKED", "LOCK_STATE_CONFIGURING",
                           "LOCK_STATE_AWAITING_DOOR_CLOSE", "LOCK_STATE_LOCKED",
                           "LOCK_STATE_PENDING_UNLOCK", "LOCK_STATE_BREAK_ACTIVE",
                           "LOCK_STATE_ERROR"}

KeyKinds == {"unlock", "cleaning", "config"}

\* uint32_t arithmetic
U32Add(a, b) == (a + b) % U32_MOD

\* The union member of the active lock type; LOCK_TYPE_NONE holds none.
NoConfig == [none |-> TRUE]
AgentLockConfig_t(id) == [agent_id |-> id]
CustomLockConfig_t(d) == [duration_seconds |-> d]
KeyholderBasicLockConfig_t(p) == [pin |-> p, pin_length |-> Len(p)]
KeyholderRemoteLockConfig_t(u, c, g, b) ==
    [current_unlock_key_index |-> u, current_cleaning_key_index |-> c,
     current_config_key_index |-> g, break_duration_minutes |-> b]

DefaultSession ==
    [active_lock_type |-> "LOCK_TYPE_NONE",
     operational_state |-> "LOCK_STATE_UNLOCKED",
     mode_config |-> NoConfig,
     utc_lock_start_time |-> 0,
     utc_unlock_target_time |-> 0,
     current_session_accumulated_time_seconds |-> 0,
     utc_break_start_time |-> 0,
     break_allowed_duration_seconds |-> 0]

NoKeyAccepted == [k \in KeyKinds |-> -1]

\* LockTimeCounters_t: one accumulator per lock type and agent sub-type.
Buckets == {"agent_beginner", "agent_advanced", "agent_permanent", "custom",
            "keyholder_basic", "keyholder_remote"}

NoTimeCounted == [b \in Buckets |-> 0]

\* Agent personalities: Rookie, Veteran, Warden.
CONFIG_AGENT_COUNT == 3

AgentBucket(agent_id) ==
    CASE agent_id = 0 -> "agent_beginner"
      [] agent_id = 1 -> "agent_advanced"
      [] OTHER -> "agent_permanent"

\* Mutant: every agent lock is counted as a beginner lock.
CounterOf_TypeOnly(s) ==
    CASE s.active_lock_type = "LOCK_TYPE_AGENT" -> "agent_beginner"
      [] s.active_lock_type = "LOCK_TYPE_CUSTOM" -> "custom"
      [] s.active_lock_type = "LOCK_TYPE_KEYHOLDER_BASIC" -> "keyholder_basic"
      [] s.active_lock_type = "LOCK_TYPE_KEYHOLDER_REMOTE" -> "keyholder_remote"
      [] OTHER -> "none"

\* The counter of the session's lock type (and agent sub-type).
CounterOf(s) ==
    CASE s.active_lock_type = "LOCK_TYPE_AGENT" -> AgentBucket(s.mode_config.agent_id)
      [] s.active_lock_type = "LOCK_TYPE_CUSTOM" -> "custom"
      [] s.active_lock_type = "LOCK_TYPE_KEYHOLDER_BASIC" -> "keyholder_basic"
      [] s.active_lock_type = "LOCK_TYPE_KEYHOLDER_REMOTE" -> "keyholder_remote"
      [] OTHER -> "none"

\* Mutant: the counter is set to the session time instead of growing by it.
SessionCounted_Replaced(c, s) ==
    IF CounterOf(s) \in Buckets
    THEN [c EXCEPT ![CounterOf(s)] = s.current_session_accumulated_time_seconds]
    ELSE c

\* The session time of a completed session is added to its counter.
SessionCounted(c, s) ==
    IF CounterOf(s) \in Buckets
    THEN [c EXCEPT ![CounterOf(s)] = @ + s.current_session_accumulated_time_seconds]
    ELSE c

\* PIN strings as sequences of character codes: '0'..'9' are 48..57.
Pin8 == <<49, 50, 51, 52, 53, 54, 55, 56>>
Pin8Other == <<48, 48, 48, 48, 48, 48, 48, 48>>
Pin4 == <<49, 50, 51, 52>>
PinAlpha == <<49, 50, 97, 52, 53, 54, 55, 56>>
Pin3 == <<49, 50, 51>>

RECURSIVE AllDigitsFrom(_, _)
AllDigitsFrom(pin, i) ==
    IF i > Len(pin) THEN TRUE
    ELSE IF pin[i] < 48 \/ pin[i] > 57 THEN FALSE
    ELSE AllDigitsFrom(pin, i + 1)

utils_validate_pin(pin) ==
    IF Len(pin) < 4 \/ Len(pin) > 8 THEN FALSE ELSE AllDigitsFrom(pin, 1)

\* Mutant: a duration of more than a year is taken without confirmation.
ValidDuration_Unconfirmed(d, confirmed) ==
    /\ d >= MinDuration
    /\ d <= MaxDuration

\* Custom duration limits; more than a year needs the caller's confirmation.
ValidDuration(d, confirmed) ==
    /\ d >= MinDuration
    /\ d <= MaxDuration
    /\ (d > YearDuration => confirmed)

\* The rolling-key derivation (index -> expected key) is a shared-secret
\* function agreed with the web service; the tables cover injective and colliding ones.
KeyIndices == 0 .. (MaxKeyIndex + KEY_WINDOW_SIZE)
Keys == 0 .. (NumKeys - 1)
SequentialKeys == [i \in KeyIndices |-> i]
DeriveTables == { [i \in KeyIndices |-> i % m] : m \in {2, NumKeys, MaxKeyIndex + KEY_WINDOW_SIZE + 1} }

(***************************************************************************)
(* Initial state: first boot                                               *)
(***************************************************************************)
\* The other tasks before they have done anything.
HlmAtRest ==
    /\ hlm_state = "idle"
    /\ current_retry_count = 0
    /\ max_retries = 1
    /\ notify = "none"

\* memset(&display_task_state, 0, ...): every slot holds the all-zero command.
ZeroCommand ==
    [id |-> "DISPLAY_CMD_ACTIVATE_SCREEN", screen_id |-> "SCREEN_ID_WELCOME",
     data_ptr |-> "NULL"]

QueueSlots == 0 .. (CONFIG_DISPLAY_COMMAND_QUEUE_SIZE - 1)

DisplayAtRest ==
    /\ command_queue = [i \in QueueSlots |-> ZeroCommand]
    /\ queue_head = 0
    /\ queue_tail = 0
    /\ queue_count = 0
    /\ current_screen = "SCREEN_ID_WELCOME"
    /\ current_data = 0
    /\ stack_data = 0
    /\ supplied = <<>>
    /\ update_task = [pc |-> "idle", count |-> 0]

PowerAtRest ==
    /\ ckos_power_insomnia_level = 0
    /\ idle_state = "running"
    /\ holding = {}

\* bsp_button_id_t; BSP_BUTTON_COUNT is not a button.
Buttons ==
    {"BSP_BUTTON_UP", "BSP_BUTTON_DOWN", "BSP_BUTTON_LEFT", "BSP_BUTTON_RIGHT",
     "BSP_BUTTON_A", "BSP_BUTTON_B"}

ButtonIds == Buttons \cup {"BSP_BUTTON_COUNT"}

\* g_app_state after app_logic_init: memset to 0 (last_button 0 is
\* BSP_BUTTON_UP, last_button_time 0), then the first-boot values.
AppInitState ==
    [current_state |-> "STATE_WELCOME",
     first_boot |-> TRUE,
     timezone_configured |-> FALSE,
     time_configured |-> FALSE,
     timezone_offset_hours |-> 0,
     dst_active |-> FALSE,
     menu_selection |-> 0,
     menu_visible_start |-> 0,
     settings_selection |-> 0,
     settings_visible_start |-> 0,
     last_button |-> "BSP_BUTTON_UP",
     last_button_time |-> 0]

DurableAtRest ==
    /\ stored_counters = NoTimeCounted
    /\ completing = DefaultSession

AppAtRest ==
    /\ g_app_state = AppInitState
    /\ accepted_press = FALSE

OthersAtRest ==
    /\ request = <<>>
    /\ decoded = <<>>
    /\ HlmAtRest
    /\ DisplayAtRest
    /\ PowerAtRest
    /\ AppAtRest
    /\ DurableAtRest

Init ==
    /\ session = DefaultSession
    /\ store = DefaultSession
    /\ now = 1
    /\ last_update_utc = 0
    /\ derive = SequentialKeys
    /\ cmd = "boot"
    /\ arg = 0
    /\ outcome = "Ok"
    /\ break_total = 0
    /\ max_accepted = NoKeyAccepted
    /\ counters = NoTimeCounted
    /\ store_ok = TRUE
    /\ store_check = "ok"
    /\ blob = <<>>
    /\ load_result = "none"
    /\ alarm = 0
    /\ OthersAtRest

\* Mutant: the failure path saves the session.
Reject_Saves(c, a, why) ==
    /\ cmd' = c
    /\ arg' = a
    /\ outcome' = why
    /\ store' = session
    /\ UNCHANGED <<session, store_check, now, last_update_utc, derive, alarm, counters, aside,
                   break_total, max_accepted>>

\* A command that is refused: the session and the persisted copy stay as they are.
Reject(c, a, why) ==
    /\ cmd' = c
    /\ arg' = a
    /\ outcome' = why
    /\ UNCHANGED <<session, store, store_check, now, last_update_utc, derive, alarm, counters,
                   aside, break_total, max_accepted>>

\* Mutant: the failure of the store write is not looked at.
SaveFails_Ignored == FALSE

\* The store write of this command fails (PersistenceStore I/O fault).
SaveFails == ~store_ok

\* Mutant: the new session is not written to the store.
Commit_NoSave(c, a, s, res) ==
    /\ session' = s
    /\ cmd' = c
    /\ arg' = a
    /\ outcome' = res
    /\ UNCHANGED <<store, store_check>>

\* A command that succeeds with new session s, which is saved: a working
\* store then holds a freshly written blob of s.
Commit(c, a, s, res) ==
    /\ session' = s
    /\ store' = (IF store_ok THEN s ELSE store)
    /\ store_check' = (IF store_ok THEN "ok" ELSE store_check)
    /\ cmd' = c
    /\ arg' = a
    /\ outcome' = res

(***************************************************************************)
(* The clock (ClockSource): UTC seconds, never going back                   *)
(***************************************************************************)
ClockAdvance ==
    /\ now < MaxNow
    /\ now' = now + 1
    /\ break_total' = IF session.operational_state = "LOCK_STATE_BREAK_ACTIVE"
                      THEN break_total + 1 ELSE break_total
    /\ cmd' = "clock"
    /\ arg' = 0
    /\ outcome' = "Ok"
    /\ UNCHANGED <<session, store, store_check, last_update_utc, derive, alarm, counters,
                   aside, max_accepted>>

(***************************************************************************)
(* LockSys_ConfigureLock                                                   *)
(***************************************************************************)
ConfigInputs ==
    {<<"LOCK_TYPE_AGENT", AgentLockConfig_t(id), TRUE>> : id \in {0, CONFIG_AGENT_COUNT - 1}}
    \cup {<<"LOCK_TYPE_CUSTOM", CustomLockConfig_t(d), c>> :
            d \in {MinDuration - 1, MinDuration, MaxDuration, MaxDuration + 1},
            c \in BOOLEAN}
    \cup {<<"LOCK_TYPE_KEYHOLDER_BASIC", KeyholderBasicLockConfig_t(p), TRUE>> :
            p \in {Pin8, PinAlpha, Pin3}}
    \cup {<<"LOCK_TYPE_KEYHOLDER_REMOTE", KeyholderRemoteLockConfig_t(0, 0, 0, 1), TRUE>>}

ValidConfig(type, cfg, confirmed) ==
    CASE type = "LOCK_TYPE_CUSTOM" -> ValidDuration(cfg.duration_seconds, confirmed)
      [] type = "LOCK_TYPE_KEYHOLDER_BASIC" -> utils_validate_pin(cfg.pin)
      [] OTHER -> TRUE

CanConfigure(s) ==
    s.operational_state \in {"LOCK_STATE_UNLOCKED", "LOCK_STATE_CONFIGURING"}

\* The command with its parameters: lock type, mode configuration, and
\* whether the user confirmed a long duration.
ConfigureLock(in) ==
    IF ~CanConfigure(session)
    THEN Reject("configure", 0, "InvalidStateTransition")
    ELSE IF ~ValidConfig(in[1], in[2], in[3])
    THEN Reject("configure", 0, "InvalidConfig")
    ELSE IF SaveFails
    THEN Reject("configure", 0, "PersistError")
    ELSE /\ Commit("configure", 0,
                   [session EXCEPT !.active_lock_type = in[1],
                                   !.mode_config = in[2],
                                   !.operational_state = "LOCK_STATE_CONFIGURING"],
                   "Ok")
         /\ max_accepted' = NoKeyAccepted
         /\ UNCHANGED <<now, last_update_utc, derive, alarm, counters, aside, break_total>>

\* Outside Unlocked and Configuring the command is refused whatever its
\* parameters are, so one request stands for all of them there.
ConfigInputsIn(s) ==
    IF CanConfigure(s) THEN ConfigInputs ELSE {CHOOSE in \in ConfigInputs : TRUE}

LockSys_ConfigureLock == \E in \in ConfigInputsIn(session) : ConfigureLock(in)

\* Configuring --finalize--> AwaitingDoorClose
FinalizeConfig ==
    /\ session.operational_state = "LOCK_STATE_CONFIGURING"
    /\ IF SaveFails
       THEN Reject("finalize", 0, "PersistError")
       ELSE /\ Commit("finalize", 0,
                      [session EXCEPT !.operational_state = "LOCK_STATE_AWAITING_DOOR_CLOSE"],
                      "Ok")
            /\ UNCHANGED <<now, last_update_utc, derive, alarm, counters, aside, break_total,
                           max_accepted>>

(***************************************************************************)
(* LockSys_InitiateLock                                                    *)
(***************************************************************************)
\* Mutant: the lock may also be initiated before the configuration is finalized.
CanInitiate_Early(s) ==
    s.operational_state \in {"LOCK_STATE_AWAITING_DOOR_CLOSE", "LOCK_STATE_CONFIGURING"}

CanInitiate(s) == s.operational_state = "LOCK_STATE_AWAITING_DOOR_CLOSE"

\* utc_unlock_target_time "if applicable": a Custom lock has a duration.
UnlockTarget(s, t) ==
    IF s.active_lock_type = "LOCK_TYPE_CUSTOM"
    THEN U32Add(t, s.mode_config.duration_seconds)
    ELSE 0

\* REQ_SET_RTC_ALARM for the unlock target of a time-based lock; the RTC
\* holds one alarm, which a new request replaces.
UnlockAlarm(target, current) == IF target # 0 THEN target ELSE current

LockSys_InitiateLock ==
    IF ~CanInitiate(session)
    THEN Reject("initiate", 0, "InvalidStateTransition")
    ELSE IF SaveFails
    THEN Reject("initiate", 0, "PersistError")
    ELSE /\ Commit("initiate", 0,
                   [session EXCEPT !.utc_lock_start_time = now,
                                   !.utc_unlock_target_time = UnlockTarget(session, now),
                                   !.current_session_accumulated_time_seconds = 0,
                                   !.operational_state = "LOCK_STATE_LOCKED"],
                   "Ok")
         /\ last_update_utc' = now
         /\ break_total' = 0
         /\ alarm' = UnlockAlarm(UnlockTarget(session, now), alarm)
         /\ UNCHANGED <<now, derive, counters, aside, max_accepted>>

(***************************************************************************)
(* Credential validators                                                   *)
(***************************************************************************)
\* Basic mode: the entered PIN is compared with the stored PIN.
PinMatches(cfg, pin) == pin = cfg.pin

\* Mutant: the window reaches current_index + KEY_WINDOW_SIZE.
WindowLast_Inclusive(cur) == cur + KEY_WINDOW_SIZE

\* Remote mode: the window [current_index, current_index + KEY_WINDOW_SIZE - 1].
WindowLast(cur) == cur + KEY_WINDOW_SIZE - 1

\* Walk the window upwards comparing the key with the expected key of each
\* index; the result is the matched index, or -1 when no index matches.
RECURSIVE FindKeyFrom(_, _, _)
FindKeyFrom(key, i, last) ==
    IF i > last THEN -1
    ELSE IF derive[i] = key THEN i
    ELSE FindKeyFrom(key, i + 1, last)

\* Mutant: the window is walked downwards, so the highest matching index wins.
RECURSIVE FindKeyDownFrom(_, _, _)
FindKeyDownFrom(key, i, first) ==
    IF i < first THEN -1
    ELSE IF derive[i] = key THEN i
    ELSE FindKeyDownFrom(key, i - 1, first)

MatchKey_Highest(key, cur) == FindKeyDownFrom(key, WindowLast(cur), cur)

\* Mutant: the walk starts at index 0 instead of the current index.
MatchKey_FromStart(key, cur) == FindKeyFrom(key, 0, WindowLast(cur))

MatchKey(key, cur) == FindKeyFrom(key, cur, WindowLast(cur))

\* On a match the stored index becomes matched_index + 1.
AdvancedIndex(matched_index) == matched_index + 1

IsRemote(s) == s.active_lock_type = "LOCK_TYPE_KEYHOLDER_REMOTE"

(***************************************************************************)
(* LockSys_AttemptUnlock                                                   *)
(***************************************************************************)
CanAttemptUnlock(s) == s.operational_state = "LOCK_STATE_LOCKED"

\* Mutant: a valid credential unlocks at once.
UnlockRequested_Unlocks(s) == [s EXCEPT !.operational_state = "LOCK_STATE_UNLOCKED"]

\* A valid credential requests actuation and waits for the confirmation.
UnlockRequested(s) == [s EXCEPT !.operational_state = "LOCK_STATE_PENDING_UNLOCK"]

AttemptUnlockPin ==
    \E pin \in {Pin8, Pin8Other} :
        /\ session.active_lock_type = "LOCK_TYPE_KEYHOLDER_BASIC"
        /\ IF ~CanAttemptUnlock(session)
           THEN Reject("attempt_unlock", 0, "InvalidStateTransition")
           ELSE IF ~PinMatches(session.mode_config, pin)
           THEN Reject("attempt_unlock", 0, "WrongCredential")
           ELSE IF SaveFails
           THEN Reject("attempt_unlock", 0, "PersistError")
           ELSE /\ Commit("attempt_unlock", 0, UnlockRequested(session), "Ok")
                /\ UNCHANGED <<now, last_update_utc, derive, alarm, counters, aside, break_total, max_accepted>>

AttemptUnlockKey ==
    \E key \in Keys :
        /\ IsRemote(session)
        /\ session.mode_config.current_unlock_key_index <= MaxKeyIndex
        /\ IF ~CanAttemptUnlock(session)
           THEN Reject("attempt_unlock", 0, "InvalidStateTransition")
           ELSE LET m == MatchKey(key, session.mode_config.current_unlock_key_index) IN
                IF m < 0
                THEN Reject("attempt_unlock", key, "ReplayedOrOutOfWindow")
                ELSE IF SaveFails
                THEN Reject("attempt_unlock", key, "PersistError")
                ELSE /\ Commit("attempt_unlock", key,
                               UnlockRequested(
                                 [session EXCEPT !.mode_config.current_unlock_key_index =
                                                     AdvancedIndex(m)]),
                               "Ok")
                     /\ max_accepted' = [max_accepted EXCEPT !["unlock"] = m]
                     /\ UNCHANGED <<now, last_update_utc, derive, alarm, counters, aside, break_total>>

\* Agent and Custom locks: the unlock condition (agent decision, expired
\* duration) is decided by the collaborator and handed in as granted or not.
AttemptUnlockGrant ==
    \E granted \in BOOLEAN :
        /\ session.active_lock_type \in {"LOCK_TYPE_AGENT", "LOCK_TYPE_CUSTOM", "LOCK_TYPE_NONE"}
        /\ IF ~CanAttemptUnlock(session)
           THEN Reject("attempt_unlock", 0, "InvalidStateTransition")
           ELSE IF ~granted
           THEN Reject("attempt_unlock", 0, "WrongCredential")
           ELSE IF SaveFails
           THEN Reject("attempt_unlock", 0, "PersistError")
           ELSE /\ Commit("attempt_unlock", 0, UnlockRequested(session), "Ok")
                /\ UNCHANGED <<now, last_update_utc, derive, alarm, counters, aside, break_total, max_accepted>>

(***************************************************************************)
(* Confirmation of the physical unlock, and its failure                    *)
(***************************************************************************)
CanCompleteUnlock(s) == s.operational_state = "LOCK_STATE_PENDING_UNLOCK"

CompleteUnlock ==
    IF ~CanCompleteUnlock(session)
    THEN Reject("complete_unlock", 0, "InvalidStateTransition")
    ELSE IF SaveFails
    THEN Reject("complete_unlock", 0, "PersistError")
    ELSE /\ Commit("complete_unlock", 0, DefaultSession, "Ok")
         /\ last_update_utc' = 0
         /\ break_total' = 0
         /\ max_accepted' = NoKeyAccepted
         /\ counters' = SessionCounted(counters, session)
         /\ UNCHANGED <<now, derive, alarm, aside>>

\* PendingUnlock --hw_reports_failure--> Locked (also the caller's timeout)
UnlockFailed ==
    /\ session.operational_state = "LOCK_STATE_PENDING_UNLOCK"
    /\ IF SaveFails
       THEN Reject("unlock_failed", 0, "PersistError")
       ELSE /\ Commit("unlock_failed", 0,
                      [session EXCEPT !.operational_state = "LOCK_STATE_LOCKED"], "Ok")
            /\ UNCHANGED <<now, last_update_utc, derive, alarm, counters, aside, break_total,
                           max_accepted>>

(***************************************************************************)
(* Current session time (tick)                                             *)
(***************************************************************************)
Accrues(s) == s.operational_state = "LOCK_STATE_LOCKED"

\* Elapsed time since the last update is added to the session time.
Accrued(s, t, last) ==
    [s EXCEPT !.current_session_accumulated_time_seconds = U32Add(@, t - last)]

\* Mutant: the time of the last update is not moved by an update.
TickBaseline_Kept(t, last) == last

\* The update becomes the last update.
TickBaseline(t, last) == t

Tick ==
    /\ cmd' = "tick"
    /\ arg' = 0
    /\ outcome' = "Ok"
    /\ IF Accrues(session)
       THEN /\ session' = Accrued(session, now, last_update_utc)
            /\ last_update_utc' = TickBaseline(now, last_update_utc)
       ELSE UNCHANGED <<session, last_update_utc>>
    /\ UNCHANGED <<store, store_check, now, derive, alarm, counters, aside, break_total, max_accepted>>

(***************************************************************************)
(* Remaining lock time (a query)                                           *)
(***************************************************************************)
\* Mutant: the unsigned difference is returned whatever the target.
LockSys_RemainingSeconds_Unchecked(s, t) == (s.utc_unlock_target_time - t) % U32_MOD

\* Remaining time = target - current time; 0 if the target is 0 or in the past.
LockSys_RemainingSeconds(s, t) ==
    IF s.utc_unlock_target_time = 0 \/ s.utc_unlock_target_time < t
    THEN 0
    ELSE s.utc_unlock_target_time - t

QueryRemaining ==
    /\ cmd' = "remaining_seconds"
    /\ arg' = LockSys_RemainingSeconds(session, now)
    /\ outcome' = "Ok"
    /\ UNCHANGED <<session, store, store_check, now, last_update_utc, derive, alarm, counters,
                   aside, break_total, max_accepted>>

(***************************************************************************)
(* Cleaning/Breaks                                                         *)
(***************************************************************************)
CanStartBreak(s) == s.operational_state = "LOCK_STATE_LOCKED"

BreakStarted(s, t, allowed) ==
    [s EXCEPT !.utc_break_start_time = t,
              !.break_allowed_duration_seconds = allowed,
              !.operational_state = "LOCK_STATE_BREAK_ACTIVE"]

\* utc_break_end_target_time = utc_break_start_time + break_allowed_duration_seconds
BreakAlarm(start, allowed) == U32Add(start, allowed)

StartBreak ==
    \E allowed \in 1 .. MaxBreakAllowed :
        IF ~CanStartBreak(session)
        THEN Reject("start_break", 0, "InvalidStateTransition")
        ELSE IF SaveFails
        THEN Reject("start_break", 0, "PersistError")
        ELSE /\ Commit("start_break", 0, BreakStarted(session, now, allowed), "Ok")
             /\ alarm' = BreakAlarm(now, allowed)
             /\ UNCHANGED <<now, last_update_utc, derive, counters, aside, break_total, max_accepted>>

CanEndBreak(s) == s.operational_state = "LOCK_STATE_BREAK_ACTIVE"

BreakElapsed(s, t) == t - s.utc_break_start_time

\* Mutant: a break that lasted exactly the allowed time counts as overdue.
BreakOverdue_AtLimit(s, t) == BreakElapsed(s, t) >= s.break_allowed_duration_seconds

\* The break time limit is exceeded.
BreakOverdue(s, t) == BreakElapsed(s, t) > s.break_allowed_duration_seconds

\* New target = old target + (current UTC - utc_break_start_time), if timed.
ExtendedTarget(s, t) ==
    IF s.utc_unlock_target_time # 0
    THEN U32Add(s.utc_unlock_target_time, BreakElapsed(s, t))
    ELSE 0

\* Mutant: every break costs the session time.
PenalizedTime_Always(s, t) == 0

\* Session time after the break: reset to 0 when the limit was exceeded.
PenalizedTime(s, t) ==
    IF BreakOverdue(s, t) THEN 0 ELSE s.current_session_accumulated_time_seconds

\* Mutant: the baseline of before the break is kept.
ResumeBaseline_Stale(t, last) == last

\* Accumulation resumes from the end of the break.
ResumeBaseline(t, last) == t

\* Mutant: the alarm of the break limit is left in place.
RescheduledAlarm_Stale(target, current) == current

\* The RTC alarm is updated with the new target time of a time-based lock.
RescheduledAlarm(target, current) == IF target # 0 THEN target ELSE current

EndBreak ==
    IF ~CanEndBreak(session)
    THEN Reject("end_break", 0, "InvalidStateTransition")
    ELSE IF SaveFails
    THEN Reject("end_break", 0, "PersistError")
    ELSE /\ Commit("end_break", 0,
                   [session EXCEPT !.utc_unlock_target_time = ExtendedTarget(session, now),
                                   !.current_session_accumulated_time_seconds =
                                       PenalizedTime(session, now),
                                   !.operational_state = "LOCK_STATE_LOCKED"],
                   IF BreakOverdue(session, now) THEN "Overdue" ELSE "OnTime")
         /\ last_update_utc' = ResumeBaseline(now, last_update_utc)
         /\ alarm' = RescheduledAlarm(ExtendedTarget(session, now), alarm)
         /\ UNCHANGED <<now, derive, counters, aside, break_total, max_accepted>>

\* A cleaning key authorizes a break of break_duration_minutes.
SECONDS_PER_MINUTE == 1

CleaningBreakSeconds(cfg) == cfg.break_duration_minutes * SECONDS_PER_MINUTE

CleaningKey ==
    \E key \in Keys :
        /\ IsRemote(session)
        /\ session.mode_config.current_cleaning_key_index <= MaxKeyIndex
        /\ IF ~CanStartBreak(session)
           THEN Reject("cleaning_key", 0, "InvalidStateTransition")
           ELSE LET m == MatchKey(key, session.mode_config.current_cleaning_key_index) IN
                IF m < 0
                THEN Reject("cleaning_key", key, "ReplayedOrOutOfWindow")
                ELSE IF SaveFails
                THEN Reject("cleaning_key", key, "PersistError")
                ELSE /\ Commit("cleaning_key", key,
                               BreakStarted(
                                 [session EXCEPT !.mode_config.current_cleaning_key_index =
                                                     AdvancedIndex(m)],
                                 now, CleaningBreakSeconds(session.mode_config)),
                               "Ok")
                     /\ max_accepted' = [max_accepted EXCEPT !["cleaning"] = m]
                     /\ alarm' = BreakAlarm(now, CleaningBreakSeconds(session.mode_config))
                     /\ UNCHANGED <<now, last_update_utc, derive, counters, aside, break_total>>

\* A config key carries a configuration change, here a new break duration.
ConfigKey ==
    \E key \in Keys, minutes \in 1 .. MaxBreakAllowed :
        /\ IsRemote(session)
        /\ session.mode_config.current_config_key_index <= MaxKeyIndex
        /\ IF ~CanStartBreak(session)
           THEN Reject("config_key", 0, "InvalidStateTransition")
           ELSE LET m == MatchKey(key, session.mode_config.current_config_key_index) IN
                IF m < 0
                THEN Reject("config_key", key, "ReplayedOrOutOfWindow")
                ELSE IF SaveFails
                THEN Reject("config_key", key, "PersistError")
                ELSE /\ Commit("config_key", key,
                               [session EXCEPT !.mode_config.current_config_key_index =
                                                   AdvancedIndex(m),
                                               !.mode_config.break_duration_minutes = minutes],
                               "Ok")
                     /\ max_accepted' = [max_accepted EXCEPT !["config"] = m]
                     /\ UNCHANGED <<now, last_update_utc, derive, alarm, counters, aside, break_total>>

(***************************************************************************)
(* Game outcomes: time added to or subtracted from the unlock target       *)
(***************************************************************************)
\* WHEEL_OUTCOME_TIME_ADD
TimeAdded(s, value) == U32Add(s.utc_unlock_target_time, value)

\* WHEEL_OUTCOME_TIME_SUBTRACT: the target does not go below the current time.
TimeSubtracted(s, value, t) ==
    IF s.utc_unlock_target_time - value < t THEN t
    ELSE s.utc_unlock_target_time - value

AdjustedTarget(s, delta, t) ==
    IF delta >= 0 THEN TimeAdded(s, delta) ELSE TimeSubtracted(s, 0 - delta, t)

AdjustTarget ==
    \E delta \in ((0 - MaxDelta) .. MaxDelta) \ {0} :
        /\ session.active_lock_type = "LOCK_TYPE_CUSTOM"
        /\ session.operational_state = "LOCK_STATE_LOCKED"
        /\ session.utc_unlock_target_time # 0
        /\ IF SaveFails
           THEN Reject("adjust_target", delta, "PersistError")
           ELSE /\ Commit("adjust_target", delta,
                          [session EXCEPT !.utc_unlock_target_time =
                                              AdjustedTarget(session, delta, now)],
                          "Ok")
                /\ UNCHANGED <<now, last_update_utc, derive, alarm, counters, aside, break_total,
                               max_accepted>>

(***************************************************************************)
(* Error state                                                             *)
(***************************************************************************)
\* (any state) --unrecoverable_fault--> Error
Fault ==
    /\ session.operational_state # "LOCK_STATE_ERROR"
    /\ IF SaveFails
       THEN Reject("fault", 0, "PersistError")
       ELSE /\ Commit("fault", 0,
                      [session EXCEPT !.operational_state = "LOCK_STATE_ERROR"], "Ok")
            /\ UNCHANGED <<now, last_update_utc, derive, alarm, counters, aside, break_total,
                           max_accepted>>

\* Error --operator_reset--> Unlocked
OperatorReset ==
    /\ session.operational_state = "LOCK_STATE_ERROR"
    /\ IF SaveFails
       THEN Reject("operator_reset", 0, "PersistError")
       ELSE /\ Commit("operator_reset", 0, DefaultSession, "Ok")
            /\ last_update_utc' = 0
            /\ break_total' = 0
            /\ max_accepted' = NoKeyAccepted
            /\ UNCHANGED <<now, derive, alarm, counters, aside>>

(***************************************************************************)
(* The persistent store and engine startup                                 *)
(***************************************************************************)
\* The store starts or stops failing its writes.
StoreHealth ==
    /\ store_ok' = ~store_ok
    /\ cmd' = "store_health"
    /\ arg' = 0
    /\ outcome' = "Ok"
    /\ UNCHANGED <<session, store, store_check, now, last_update_utc, derive, alarm, others, counters,
                   blob, load_result, break_total, max_accepted>>

\* What the integrity check of the stored blob finds.
StoreChecks == {"ok", "crc_mismatch", "bad_version"}

\* The stored blob is damaged: its CRC no longer matches, or its version
\* byte is not a known one.
CorruptStore ==
    \E damage \in StoreChecks \ {"ok"} :
        /\ store_check = "ok"
        /\ store_check' = damage
        /\ cmd' = "corrupt"
        /\ arg' = 0
        /\ outcome' = "Ok"
        /\ UNCHANGED <<session, store, now, last_update_utc, derive, alarm, counters, aside,
                       break_total, max_accepted>>

\* Mutant: the stored session is used whatever the check found.
LoadSession_Unchecked(stored, check) == stored

\* The session restored at startup: the stored one if its check passes,
\* the default unlocked session otherwise.
LoadSession(stored, check) == IF check = "ok" THEN stored ELSE DefaultSession

Startup ==
    /\ cmd' = "startup"
    /\ arg' = 0
    /\ session' = LoadSession(store, store_check)
    /\ outcome' = (IF store_check = "ok" THEN "Ok" ELSE "IntegrityError")
    /\ last_update_utc' = now
    /\ max_accepted' = (IF store_check = "ok" THEN max_accepted ELSE NoKeyAccepted)
    /\ UNCHANGED <<store, store_check, now, derive, alarm, counters, aside, break_total>>

(***************************************************************************)
(* utils_crc16 and the CRC-guarded blob                                    *)
(***************************************************************************)
\* a ^ b on non-negative integers
RECURSIVE Xor(_, _)
Xor(a, b) ==
    IF a = 0 THEN b
    ELSE IF b = 0 THEN a
    ELSE (((a % 2) + (b % 2)) % 2) + 2 * Xor(a \div 2, b \div 2)

\* static const uint16_t crc16_table[256]: the initializer lists the first
\* 16 entries, n * 0x1021; the elements it does not list are 0.
crc16_table(i) == IF i < 16 THEN i * 4129 ELSE 0

\* One round of the loop: tbl_idx = ((crc >> 8) ^ data[i]) & 0xFF;
\* crc = ((crc << 8) ^ crc16_table[tbl_idx]) & 0xFFFF
RECURSIVE Crc16From(_, _, _)
Crc16From(data, i, crc) ==
    IF i > Len(data) THEN crc
    ELSE LET tbl_idx == Xor(crc \div 256, data[i]) % 256
         IN Crc16From(data, i + 1,
                      Xor((crc * 256) % 65536, crc16_table(tbl_idx)) % 65536)

\* crc starts at 0xFFFF
utils_crc16(data) == Crc16From(data, 1, 65535)

\* The version byte that leads a serialized payload.
BLOB_VERSION == 1

\* Bytes that serialized fields are drawn from.
ByteSamples == {0, 1, 16, 165, 255}

RECURSIVE PayloadsOfLen(_)
PayloadsOfLen(n) ==
    IF n = 0 THEN {<<BLOB_VERSION>>}
    ELSE {p \o <<b>> : p \in PayloadsOfLen(n - 1), b \in ByteSamples}

Payloads == UNION {PayloadsOfLen(n) : n \in 1 .. MaxPayloadLen}

\* The CRC is stored alongside the data: payload, then CRC high and low byte.
Framed(payload) ==
    payload \o <<utils_crc16(payload) \div 256, utils_crc16(payload) % 256>>

\* The CRC recalculated over the payload equals the stored CRC.
CrcMatches(b) ==
    utils_crc16(SubSeq(b, 1, Len(b) - 2)) = b[Len(b) - 1] * 256 + b[Len(b)]

\* load: IntegrityError on an unknown version or a CRC mismatch.
LoadResult(b) ==
    IF Len(b) < 3 THEN "IntegrityError"
    ELSE IF b[1] # BLOB_VERSION THEN "IntegrityError"
    ELSE IF ~CrcMatches(b) THEN "IntegrityError"
    ELSE "Loaded"

FlipBit(byte, bit) ==
    IF (byte \div (2 ^ bit)) % 2 = 1 THEN byte - 2 ^ bit ELSE byte + 2 ^ bit

SaveBlob ==
    \E payload \in Payloads :
        /\ blob' = Framed(payload)
        /\ load_result' = "none"
        /\ cmd' = "save_blob"
        /\ arg' = 0
        /\ outcome' = "Ok"
        /\ UNCHANGED <<session, store, store_check, store_ok, now, last_update_utc, derive, alarm, others,
                       counters, break_total, max_accepted>>

\* One bit of the saved blob, payload or CRC, is flipped in the store.
FlipBlobBit ==
    \E pos \in 1 .. Len(blob), bit \in 0 .. 7 :
        /\ cmd = "save_blob"
        /\ blob' = [blob EXCEPT ![pos] = FlipBit(@, bit)]
        /\ cmd' = "flip_bit"
        /\ arg' = 0
        /\ outcome' = "Ok"
        /\ UNCHANGED <<session, store, store_check, store_ok, now, last_update_utc, derive, alarm, others,
                       counters, load_result, break_total, max_accepted>>

LoadBlob ==
    /\ blob # <<>>
    /\ load_result' = LoadResult(blob)
    /\ cmd' = "load_blob"
    /\ arg' = 0
    /\ outcome' = (IF LoadResult(blob) = "Loaded" THEN "Ok" ELSE "IntegrityError")
    /\ UNCHANGED <<session, store, store_check, store_ok, now, last_update_utc, derive, alarm, others,
                   counters, blob, break_total, max_accepted>>

(***************************************************************************)
(* Serialized form of LockSession_t and LockTimeCounters_t                  *)
(***************************************************************************)
PIN_MAX_LENGTH == 8
MAX_SERVICE_ID_LEN == 64
IDENTICON_UNIQUE_DATA_BYTES == 2

\* A string of n characters ch.
RECURSIVE Repeated(_, _)
Repeated(ch, n) == IF n = 0 THEN <<>> ELSE Repeated(ch, n - 1) \o <<ch>>

\* LockType_t and LockOperationalState_t in the order of their enumerators.
LockTypeTags ==
    <<"LOCK_TYPE_NONE", "LOCK_TYPE_AGENT", "LOCK_TYPE_CUSTOM",
      "LOCK_TYPE_KEYHOLDER_BASIC", "LOCK_TYPE_KEYHOLDER_REMOTE">>

LockStateTags ==
    <<"LOCK_STATE_UNLOCKED", "LOCK_STATE_CONFIGURING", "LOCK_STATE_AWAITING_DOOR_CLOSE",
      "LOCK_STATE_LOCKED", "LOCK_STATE_PENDING_UNLOCK", "LOCK_STATE_BREAK_ACTIVE",
      "LOCK_STATE_ERROR">>

BucketOrder ==
    <<"agent_beginner", "agent_advanced", "agent_permanent", "custom",
      "keyholder_basic", "keyholder_remote">>

TagOf(names, name) == (CHOOSE i \in 1 .. Len(names) : names[i] = name) - 1

\* An unsigned integer of width bytes, least significant byte first.
RECURSIVE LittleEndian(_, _)
LittleEndian(v, width) ==
    IF width = 0 THEN <<>>
    ELSE <<v % 256>> \o LittleEndian(v \div 256, width - 1)

RECURSIVE FromLittleEndian(_)
FromLittleEndian(b) ==
    IF b = <<>> THEN 0 ELSE b[1] + 256 * FromLittleEndian(Tail(b))

ReadField(b, offset, width) == FromLittleEndian(SubSeq(b, offset, offset + width - 1))

\* A field stored in n bytes, zero-filled.
Padded(b, n) == b \o [i \in 1 .. (n - Len(b)) |-> 0]

\* The characters of a char array up to its terminator or its end.
RECURSIVE CString(_)
CString(b) ==
    IF b = <<>> THEN <<>>
    ELSE IF b[1] = 0 THEN <<>>
    ELSE <<b[1]>> \o CString(Tail(b))

\* LockModeConfig_t: the member selected by active_lock_type.
ConfigBytes(type, cfg) ==
    CASE type = "LOCK_TYPE_AGENT" -> <<cfg.agent_id>>
      [] type = "LOCK_TYPE_CUSTOM" ->
            LittleEndian(cfg.duration_seconds, 4) \o cfg.game_ids \o <<cfg.num_games>>
      [] type = "LOCK_TYPE_KEYHOLDER_BASIC" ->
            Padded(cfg.pin, PIN_MAX_LENGTH + 1) \o <<cfg.pin_length>>
      [] type = "LOCK_TYPE_KEYHOLDER_REMOTE" ->
            Padded(cfg.service_id, MAX_SERVICE_ID_LEN)
            \o cfg.identicon_unique_data
            \o LittleEndian(cfg.current_unlock_key_index, 4)
            \o LittleEndian(cfg.current_cleaning_key_index, 4)
            \o LittleEndian(cfg.current_config_key_index, 4)
            \o LittleEndian(cfg.break_duration_minutes, 2)
      [] OTHER -> <<>>

\* Size of the largest member, KeyholderRemoteLockConfig_t.
CONFIG_BYTES == MAX_SERVICE_ID_LEN + IDENTICON_UNIQUE_DATA_BYTES + 14

ConfigFrom(type, b) ==
    CASE type = "LOCK_TYPE_AGENT" -> [agent_id |-> b[1]]
      [] type = "LOCK_TYPE_CUSTOM" ->
            [duration_seconds |-> ReadField(b, 1, 4),
             game_ids |-> SubSeq(b, 5, 4 + MAX_GAMES_PER_LOCK),
             num_games |-> b[5 + MAX_GAMES_PER_LOCK]]
      [] type = "LOCK_TYPE_KEYHOLDER_BASIC" ->
            [pin |-> CString(SubSeq(b, 1, PIN_MAX_LENGTH + 1)),
             pin_length |-> b[PIN_MAX_LENGTH + 2]]
      [] type = "LOCK_TYPE_KEYHOLDER_REMOTE" ->
            [service_id |-> CString(SubSeq(b, 1, MAX_SERVICE_ID_LEN)),
             identicon_unique_data |->
                 SubSeq(b, MAX_SERVICE_ID_LEN + 1,
                        MAX_SERVICE_ID_LEN + IDENTICON_UNIQUE_DATA_BYTES),
             current_unlock_key_index |->
                 ReadField(b, MAX_SERVICE_ID_LEN + IDENTICON_UNIQUE_DATA_BYTES + 1, 4),
             current_cleaning_key_index |->
                 ReadField(b, MAX_SERVICE_ID_LEN + IDENTICON_UNIQUE_DATA_BYTES + 5, 4),
             current_config_key_index |->
                 ReadField(b, MAX_SERVICE_ID_LEN + IDENTICON_UNIQUE_DATA_BYTES + 9, 4),
             break_duration_minutes |->
                 ReadField(b, MAX_SERVICE_ID_LEN + IDENTICON_UNIQUE_DATA_BYTES + 13, 2)]
      [] OTHER -> NoConfig

\* Mutant: the break allowance is written as a single byte.
SessionTimes_NarrowBreak(s) ==
    LittleEndian(s.utc_lock_start_time, 4)
    \o LittleEndian(s.utc_unlock_target_time, 4)
    \o LittleEndian(s.current_session_accumulated_time_seconds, 4)
    \o LittleEndian(s.utc_break_start_time, 4)
    \o <<s.break_allowed_duration_seconds % 256, 0>>

\* The four uint32_t and the uint16_t that follow mode_config.
SessionTimes(s) ==
    LittleEndian(s.utc_lock_start_time, 4)
    \o LittleEndian(s.utc_unlock_target_time, 4)
    \o LittleEndian(s.current_session_accumulated_time_seconds, 4)
    \o LittleEndian(s.utc_break_start_time, 4)
    \o LittleEndian(s.break_allowed_duration_seconds, 2)

\* serialize(session): version, lock type, state, mode_config in a field of
\* fixed size, then the times.
SerializeSession(s) ==
    <<BLOB_VERSION, TagOf(LockTypeTags, s.active_lock_type),
      TagOf(LockStateTags, s.operational_state)>>
    \o Padded(ConfigBytes(s.active_lock_type, s.mode_config), CONFIG_BYTES)
    \o SessionTimes(s)

DeserializeSession(b) ==
    LET type == LockTypeTags[b[2] + 1]
        t == 3 + CONFIG_BYTES
    IN  [active_lock_type |-> type,
         operational_state |-> LockStateTags[b[3] + 1],
         mode_config |-> ConfigFrom(type, SubSeq(b, 4, t)),
         utc_lock_start_time |-> ReadField(b, t + 1, 4),
         utc_unlock_target_time |-> ReadField(b, t + 5, 4),
         current_session_accumulated_time_seconds |-> ReadField(b, t + 9, 4),
         utc_break_start_time |-> ReadField(b, t + 13, 4),
         break_allowed_duration_seconds |-> ReadField(b, t + 17, 2)]

RECURSIVE CounterBytes(_, _)
CounterBytes(c, i) ==
    IF i > Len(BucketOrder) THEN <<>>
    ELSE LittleEndian(c[BucketOrder[i]], 8) \o CounterBytes(c, i + 1)

\* serialize(counters): version, then six uint64_t.
SerializeCounters(c) == <<BLOB_VERSION>> \o CounterBytes(c, 1)

DeserializeCounters(b) ==
    [k \in Buckets |-> ReadField(b, 2 + 8 * TagOf(BucketOrder, k), 8)]

\* Values at the edges of each field width (the largest is the largest
\* integer the checker represents).
U8Samples == {0, 1, 255}
U16Samples == {0, 1, 255, 256, 65535}
U32Samples == {0, 1, 255, 256, 65535, 65536, 16777216, 2147483647}

ConfigSamples ==
    {<<"LOCK_TYPE_NONE", NoConfig>>}
    \cup {<<"LOCK_TYPE_AGENT", [agent_id |-> a]>> : a \in 0 .. (CONFIG_AGENT_COUNT - 1)}
    \cup {<<"LOCK_TYPE_CUSTOM",
            [duration_seconds |-> d, game_ids |-> [i \in 1 .. MAX_GAMES_PER_LOCK |-> g],
             num_games |-> n]>> :
            d \in U32Samples, g \in {0, 255}, n \in {0, MAX_GAMES_PER_LOCK}}
    \cup {<<"LOCK_TYPE_KEYHOLDER_BASIC", KeyholderBasicLockConfig_t(Repeated(ch, PIN_MAX_LENGTH))>> :
            ch \in {48, 57}}
    \cup {<<"LOCK_TYPE_KEYHOLDER_REMOTE",
            [service_id |-> Repeated(122, n), identicon_unique_data |-> <<i, i \div 2>>,
             current_unlock_key_index |-> k, current_cleaning_key_index |-> 1,
             current_config_key_index |-> 65536, break_duration_minutes |-> m]>> :
            n \in {0, 1, MAX_SERVICE_ID_LEN}, i \in {0, 255}, k \in {0, 2147483647},
            m \in {0, 65535}}

\* Invariants of the data model: a locked session has a start time, and a
\* target, if any, is not before the start.
WellFormed(s) ==
    /\ (s.operational_state = "LOCK_STATE_LOCKED" => s.utc_lock_start_time > 0)
    /\ (s.utc_unlock_target_time # 0 => s.utc_unlock_target_time >= s.utc_lock_start_time)

SessionSamples ==
    LET configured ==
            {[DefaultSession EXCEPT !.active_lock_type = c[1], !.mode_config = c[2],
                                    !.operational_state = st, !.utc_lock_start_time = 1] :
                c \in ConfigSamples, st \in {"LOCK_STATE_CONFIGURING", "LOCK_STATE_LOCKED"}}
        timed ==
            {[DefaultSession EXCEPT !.active_lock_type = "LOCK_TYPE_AGENT",
                                    !.mode_config = [agent_id |-> 0],
                                    !.operational_state = st,
                                    !.utc_lock_start_time = a,
                                    !.utc_unlock_target_time = b,
                                    !.current_session_accumulated_time_seconds = a,
                                    !.utc_break_start_time = b,
                                    !.break_allowed_duration_seconds = w] :
                st \in {"LOCK_STATE_LOCKED", "LOCK_STATE_BREAK_ACTIVE", "LOCK_STATE_ERROR"},
                a \in {1, 65536, 2147483647}, b \in {0, 16777216, 2147483647},
                w \in U16Samples}
    IN  {s \in {DefaultSession} \cup configured \cup timed : WellFormed(s)}

CounterSamples ==
    {[NoTimeCounted EXCEPT ![k] = v] : k \in Buckets, v \in U32Samples}
    \cup {[k \in Buckets |-> 2147483647]}

SerialRequests ==
    {[kind |-> "session", value |-> s] : s \in SessionSamples}
    \cup {[kind |-> "counters", value |-> c] : c \in CounterSamples}

SerialFrame ==
    /\ arg' = 0
    /\ outcome' = "Ok"
    /\ UNCHANGED <<session, store, store_check, store_ok, now, last_update_utc, derive,
                   alarm, counters, load_result, break_total, max_accepted,
                   request, app, durable, hlm, display, power>>

SerializeRequested ==
    /\ cmd = "boot"
    /\ blob' = (IF request.kind = "session" THEN SerializeSession(request.value)
                ELSE SerializeCounters(request.value))
    /\ cmd' = "serialize"
    /\ UNCHANGED decoded
    /\ SerialFrame

DeserializeBlob ==
    /\ cmd = "serialize"
    /\ decoded' = (IF request.kind = "session" THEN DeserializeSession(blob)
                   ELSE DeserializeCounters(blob))
    /\ cmd' = "deserialize"
    /\ UNCHANGED blob
    /\ SerialFrame

(***************************************************************************)
(* Display task: command queue, display_task_send_command and               *)
(* display_task_update; the application's screen activations                *)
(***************************************************************************)
\* Contents of a screen data structure (TimezoneScreenData).
DataValues == 0 .. MaxData

\* Commands a caller builds itself, as the unit tests do.
DirectCommands == {ZeroCommand}

\* The command of app_logic_activate_screen(SCREEN_ID_TIMEZONE_SETUP, &data):
\* data_ptr is the address of the handler's automatic variable.
TimezoneCommand ==
    [id |-> "DISPLAY_CMD_ACTIVATE_SCREEN", screen_id |-> "SCREEN_ID_TIMEZONE_SETUP",
     data_ptr |-> "local"]

\* Mutant: one command too many is accepted.
QueueFull_Late(count) == count > CONFIG_DISPLAY_COMMAND_QUEUE_SIZE

QueueFull(count) == count >= CONFIG_DISPLAY_COMMAND_QUEUE_SIZE

SendAccepted(is_null, count) == (~is_null) /\ ~QueueFull(count)

\* Body of display_task_send_command. supplied records, per pending
\* command, the contents of the sender's data at the moment of the call.
Enqueue(is_null, c) ==
    IF SendAccepted(is_null, queue_count)
    THEN /\ command_queue' = [command_queue EXCEPT ![queue_tail] = c]
         /\ queue_tail' = (queue_tail + 1) % CONFIG_DISPLAY_COMMAND_QUEUE_SIZE
         /\ queue_count' = queue_count + 1
         /\ supplied' = Append(supplied, [data |-> stack_data', command |-> c])
    ELSE UNCHANGED <<command_queue, queue_tail, queue_count, supplied>>

display_task_send_command ==
    \E is_null \in BOOLEAN, c \in DirectCommands :
        /\ UNCHANGED stack_data
        /\ Enqueue(is_null, c)
        /\ request' = [null |-> is_null, command |-> c]
        /\ outcome' = (IF SendAccepted(is_null, queue_count) THEN "true" ELSE "false")
        /\ cmd' = "display_task_send_command"
        /\ arg' = 0
        /\ UNCHANGED <<session, store, store_check, store_ok, now, last_update_utc, derive,
                       alarm, counters, blob, load_result, break_total, max_accepted,
                       queue_head, current_screen, current_data, update_task, decoded, app, durable, hlm, power>>

\* A press handled in STATE_TIMEZONE_SETUP: the handler fills its local
\* TimezoneScreenData and passes its address to app_logic_activate_screen,
\* which ignores the result of display_task_send_command.
TimezoneSetupPress ==
    \E d \in DataValues :
        /\ stack_data' = d
        /\ Enqueue(FALSE, TimezoneCommand)
        /\ cmd' = "app_logic_activate_screen"
        /\ arg' = 0
        /\ outcome' = "Ok"
        /\ UNCHANGED <<session, store, store_check, store_ok, now, last_update_utc, derive,
                       alarm, counters, blob, load_result, break_total, max_accepted,
                       queue_head, current_screen, current_data, update_task, request, decoded, app, durable, hlm,
                       power>>

\* The handler has returned: its frame is dead, and whatever runs next on
\* that stack writes its own values there.
StackReuse ==
    \E d \in DataValues \ {stack_data} :
        /\ stack_data' = d
        /\ cmd' = "stack_reuse"
        /\ arg' = 0
        /\ outcome' = "Ok"
        /\ UNCHANGED <<session, store, store_check, store_ok, now, last_update_utc, derive,
                       alarm, counters, blob, load_result, break_total, max_accepted,
                       command_queue, queue_head, queue_tail, queue_count, current_screen,
                       current_data, supplied, update_task, request, decoded, app, durable, hlm, power>>

\* What the display task copies for an ACTIVATE_SCREEN command: the memory
\* data_ptr points to, read when the command is processed.
AppliedData(c, memory, current) ==
    IF c.id = "DISPLAY_CMD_ACTIVATE_SCREEN" /\ c.data_ptr # "NULL"
       /\ c.screen_id = "SCREEN_ID_TIMEZONE_SETUP"
    THEN memory
    ELSE current

\* Mutant: the head index does not move after a command was taken.
AdvanceHead_Stuck(head) == head

\* queue_head = (queue_head + 1) % 16
AdvanceHead(head) == (head + 1) % CONFIG_DISPLAY_COMMAND_QUEUE_SIZE

display_task_update ==
    /\ IF queue_count > 0
       THEN LET c == command_queue[queue_head]
            IN  /\ current_screen' = (IF c.id = "DISPLAY_CMD_ACTIVATE_SCREEN"
                                      THEN c.screen_id ELSE current_screen)
                /\ current_data' = AppliedData(c, stack_data, current_data)
                /\ queue_head' = AdvanceHead(queue_head)
                /\ queue_count' = queue_count - 1
                /\ supplied' = Tail(supplied)
       ELSE UNCHANGED <<current_screen, current_data, queue_head, queue_count, supplied>>
    /\ cmd' = "display_task_update"
    /\ arg' = 0
    /\ outcome' = "Ok"
    /\ UNCHANGED <<session, store, store_check, store_ok, now, last_update_utc, derive,
                   alarm, counters, blob, load_result, break_total, max_accepted,
                   command_queue, queue_tail, stack_data, update_task, request, decoded, app, durable, hlm, power>>

(***************************************************************************)
(* display_task_update in Display_Task (priority 3), preempted by           *)
(* display_task_send_command in ApplicationLogic_Task (priority 4)          *)
(***************************************************************************)
UpdateFrame ==
    /\ cmd' = "display_task_update"
    /\ arg' = 0
    /\ outcome' = "Ok"
    /\ UNCHANGED <<session, store, store_check, store_ok, now, last_update_utc, derive,
                   alarm, counters, blob, load_result, break_total, max_accepted,
                   command_queue, queue_tail, stack_data, request, decoded, app, durable, hlm,
                   power>>

\* if (display_task_state.queue_count > 0)
UpdateBegin ==
    /\ update_task.pc = "idle"
    /\ update_task' = [update_task EXCEPT !.pc = IF queue_count > 0 THEN "process"
                                                 ELSE "idle"]
    /\ UNCHANGED <<queue_head, queue_count, current_screen, current_data, supplied>>
    /\ UpdateFrame

\* The switch on cmd->id, cmd pointing into the slot at queue_head.
UpdateProcess ==
    /\ update_task.pc = "process"
    /\ LET c == command_queue[queue_head]
       IN  /\ current_screen' = (IF c.id = "DISPLAY_CMD_ACTIVATE_SCREEN"
                                 THEN c.screen_id ELSE current_screen)
           /\ current_data' = AppliedData(c, stack_data, current_data)
    /\ supplied' = Tail(supplied)
    /\ update_task' = [update_task EXCEPT !.pc = "head"]
    /\ UNCHANGED <<queue_head, queue_count>>
    /\ UpdateFrame

UpdateAdvanceHead ==
    /\ update_task.pc = "head"
    /\ queue_head' = AdvanceHead(queue_head)
    /\ update_task' = [update_task EXCEPT !.pc = "count"]
    /\ UNCHANGED <<queue_count, current_screen, current_data, supplied>>
    /\ UpdateFrame

\* queue_count--, compiled to one uninterrupted read-modify-write.
UpdateDecrement ==
    /\ update_task.pc = "count"
    /\ queue_count' = queue_count - 1
    /\ update_task' = [update_task EXCEPT !.pc = "idle"]
    /\ UNCHANGED <<queue_head, current_screen, current_data, supplied>>
    /\ UpdateFrame

\* queue_count--, compiled to load, subtract, store: the load.
UpdateLoadCount ==
    /\ update_task.pc = "count"
    /\ update_task' = [pc |-> "store", count |-> queue_count]
    /\ UNCHANGED <<queue_head, queue_count, current_screen, current_data, supplied>>
    /\ UpdateFrame

\* queue_count--: the store of the decremented value.
UpdateStoreCount ==
    /\ update_task.pc = "store"
    /\ queue_count' = update_task.count - 1
    /\ update_task' = [pc |-> "idle", count |-> 0]
    /\ UNCHANGED <<queue_head, current_screen, current_data, supplied>>
    /\ UpdateFrame

\* ApplicationLogic_Task runs whenever it is ready: a send happens between
\* any two steps of the update and is not interrupted itself. At most
\* MaxUnconsumed accepted commands are awaiting the display task.
PreemptingSend ==
    /\ Len(supplied) < MaxUnconsumed
    /\ (display_task_send_command \/ TimezoneSetupPress)

(***************************************************************************)
(* Application logic: app_logic_process_button_event and                    *)
(* app_logic_change_state                                                   *)
(***************************************************************************)
\* The command app_logic_activate_screen builds.
Activation(screen, ptr) ==
    [id |-> "DISPLAY_CMD_ACTIVATE_SCREEN", screen_id |-> screen, data_ptr |-> ptr]

\* Mutant: the window does not follow the selection downwards.
ScrollWindow_NoScrollDown(selection, visible_start, max_visible) ==
    IF selection < visible_start THEN selection ELSE visible_start

\* update_menu_scroll_window / update_settings_scroll_window: the new
\* visible_start.
ScrollWindow(selection, visible_start, max_visible) ==
    IF selection < visible_start THEN selection
    ELSE IF selection >= visible_start + max_visible
    THEN selection - max_visible + 1
    ELSE visible_start

\* app_logic_change_state: the new g_app_state and the commands sent.
ChangeState(g, new_state) ==
    IF new_state = g.current_state THEN [g |-> g, sent |-> <<>>]
    ELSE LET g1 == [g EXCEPT !.current_state = new_state]
         IN  CASE new_state = "STATE_WELCOME" ->
                    [g |-> g1, sent |-> <<Activation("SCREEN_ID_WELCOME", "NULL")>>]
               [] new_state = "STATE_TIMEZONE_SETUP" ->
                    [g |-> g1, sent |-> <<Activation("SCREEN_ID_TIMEZONE_SETUP", "local")>>]
               [] new_state = "STATE_TIME_SETUP" ->
                    [g |-> g1, sent |-> <<Activation("SCREEN_ID_TIME_SETUP", "local")>>]
               [] new_state = "STATE_MENU" ->
                    [g |-> [g1 EXCEPT !.menu_selection = 0,
                                      !.menu_visible_start =
                                          ScrollWindow(0, 0, max_visible_menu_items)],
                     sent |-> <<Activation("SCREEN_ID_MAIN_MENU", "local")>>]
               [] new_state = "STATE_SETTINGS" ->
                    [g |-> [g1 EXCEPT !.settings_selection = 0,
                                      !.settings_visible_start =
                                          ScrollWindow(0, 0, max_visible_settings_items)],
                     sent |-> <<Activation("SCREEN_ID_SETTINGS", "local")>>]
               [] OTHER -> [g |-> g1, sent |-> <<>>]

\* A state change after commands already sent by the handler.
ThenChange(first, g, new_state) ==
    [g |-> ChangeState(g, new_state).g, sent |-> first \o ChangeState(g, new_state).sent]

Min(a, b) == IF a < b THEN a ELSE b
Max(a, b) == IF a > b THEN a ELSE b

TimezonePress(g, button) ==
    LET shown == <<Activation("SCREEN_ID_TIMEZONE_SETUP", "local")>>
        leave(g1) ==
            IF g1.first_boot /\ ~g1.time_configured
            THEN ChangeState(g1, "STATE_TIME_SETUP")
            ELSE ThenChange(<<Activation("SCREEN_ID_MAIN_MENU", "local")>>, g1, "STATE_MENU")
    IN  CASE button = "BSP_BUTTON_LEFT" ->
               [g |-> [g EXCEPT !.timezone_offset_hours = Max(@ - 1, 0 - MaxOffset)],
                sent |-> shown]
          [] button = "BSP_BUTTON_RIGHT" ->
               [g |-> [g EXCEPT !.timezone_offset_hours = Min(@ + 1, MaxOffset)],
                sent |-> shown]
          [] button \in {"BSP_BUTTON_UP", "BSP_BUTTON_DOWN"} ->
               [g |-> [g EXCEPT !.dst_active = ~@], sent |-> shown]
          [] button = "BSP_BUTTON_A" -> leave([g EXCEPT !.timezone_configured = TRUE])
          [] button = "BSP_BUTTON_B" -> leave(g)
          [] OTHER -> [g |-> g, sent |-> <<>>]

TimeSetupPress(g, button) ==
    CASE button = "BSP_BUTTON_A" ->
           ChangeState([g EXCEPT !.time_configured = TRUE, !.first_boot = FALSE],
                       "STATE_MENU")
      [] button = "BSP_BUTTON_B" ->
           ChangeState([g EXCEPT !.first_boot = FALSE], "STATE_MENU")
      [] OTHER -> [g |-> g, sent |-> <<>>]

\* Index of "Settings" in main_menu_options: the entry before the last one.
SETTINGS_ENTRY == MAIN_MENU_COUNT - 2

\* case STATE_MENU: the switch on the button, then the menu screen is
\* activated whatever the button was.
MenuPress(g, button) ==
    LET moved(sel) ==
            [g |-> [g EXCEPT !.menu_selection = sel,
                             !.menu_visible_start =
                                 ScrollWindow(sel, @, max_visible_menu_items)],
             sent |-> <<>>]
        r == CASE button = "BSP_BUTTON_DOWN" ->
                    moved(IF g.menu_selection + 1 >= MAIN_MENU_COUNT
                          THEN MAIN_MENU_COUNT - 1 ELSE g.menu_selection + 1)
               [] button = "BSP_BUTTON_UP" ->
                    moved(IF g.menu_selection > 0 THEN g.menu_selection - 1
                          ELSE g.menu_selection)
               [] button = "BSP_BUTTON_A" ->
                    IF g.menu_selection = SETTINGS_ENTRY
                    THEN ChangeState(g, "STATE_SETTINGS")
                    ELSE [g |-> g, sent |-> <<>>]
               [] button = "BSP_BUTTON_B" -> ChangeState(g, "STATE_WELCOME")
               [] OTHER -> [g |-> g, sent |-> <<>>]
    IN  [g |-> r.g, sent |-> r.sent \o <<Activation("SCREEN_ID_MAIN_MENU", "local")>>]

\* case STATE_SETTINGS: the switch, then app_logic_update_settings_menu.
SettingsPress(g, button) ==
    LET moved(sel) ==
            [g |-> [g EXCEPT !.settings_selection = sel,
                             !.settings_visible_start =
                                 ScrollWindow(sel, @, max_visible_settings_items)],
             sent |-> <<>>]
        r == CASE button = "BSP_BUTTON_DOWN" ->
                    moved(IF g.settings_selection + 1 >= SETTINGS_COUNT
                          THEN SETTINGS_COUNT - 1 ELSE g.settings_selection + 1)
               [] button = "BSP_BUTTON_UP" ->
                    moved(IF g.settings_selection > 0 THEN g.settings_selection - 1
                          ELSE g.settings_selection)
               [] button = "BSP_BUTTON_B" -> ChangeState(g, "STATE_MENU")
               [] OTHER -> [g |-> g, sent |-> <<>>]
    IN  [g |-> r.g, sent |-> r.sent \o <<Activation("SCREEN_ID_SETTINGS", "local")>>]

\* switch (g_app_state.current_state)
HandlePress(g, button) ==
    CASE g.current_state = "STATE_WELCOME" ->
           ChangeState(g, IF g.first_boot THEN "STATE_TIMEZONE_SETUP" ELSE "STATE_MENU")
      [] g.current_state = "STATE_TIMEZONE_SETUP" -> TimezonePress(g, button)
      [] g.current_state = "STATE_TIME_SETUP" -> TimeSetupPress(g, button)
      [] g.current_state = "STATE_MENU" -> MenuPress(g, button)
      [] g.current_state = "STATE_SETTINGS" -> SettingsPress(g, button)
      [] OTHER -> [g |-> g, sent |-> <<>>]

\* event->timestamp - last_button_time in uint32_t arithmetic.
TickDiff(a, b) == (a - b + TICK_MOD) % TICK_MOD

\* Mutant: the debounce looks at the time only.
Debounced_AnyButton(g, e) ==
    TickDiff(e.timestamp, g.last_button_time) < BUTTON_DEBOUNCE_MS

Debounced(g, e) ==
    /\ g.last_button = e.button
    /\ TickDiff(e.timestamp, g.last_button_time) < BUTTON_DEBOUNCE_MS

\* app_logic_process_button_event without its sends: the new g_app_state,
\* the commands to send, and whether the event got past the early returns.
ProcessButton(g, e) ==
    IF ~e.pressed THEN [g |-> g, sent |-> <<>>, processed |-> FALSE]
    ELSE IF Debounced(g, e) THEN [g |-> g, sent |-> <<>>, processed |-> FALSE]
    ELSE LET g1 == [g EXCEPT !.last_button_time = e.timestamp,
                             !.last_button = e.button]
         IN  [g |-> HandlePress(g1, e.button).g,
              sent |-> HandlePress(g1, e.button).sent,
              processed |-> TRUE]

\* The events delivered: every press, and one release (a release returns
\* before its button and timestamp are read).
ButtonEvents ==
    [button : ButtonIds, pressed : {TRUE}, timestamp : 0 .. TICK_MOD - 1]
        \cup {[button |-> "BSP_BUTTON_A", pressed |-> FALSE, timestamp |-> 0]}

\* The queue fields as one value.
QueueNow ==
    [command_queue |-> command_queue, queue_tail |-> queue_tail,
     queue_count |-> queue_count, supplied |-> supplied]

\* display_task_send_command(&cmd) as a function of the queue.
QueueSend(q, c, data) ==
    IF QueueFull(q.queue_count) THEN q
    ELSE [command_queue |-> [q.command_queue EXCEPT ![q.queue_tail] = c],
          queue_tail |-> (q.queue_tail + 1) % CONFIG_DISPLAY_COMMAND_QUEUE_SIZE,
          queue_count |-> q.queue_count + 1,
          supplied |-> Append(q.supplied, [data |-> data, command |-> c])]

RECURSIVE SendAll(_, _, _)
SendAll(q, cmds, data) ==
    IF cmds = <<>> THEN q
    ELSE SendAll(QueueSend(q, Head(cmds), data), Tail(cmds), data)

\* The handler's screen data locals are written when a command that
\* points to them is built.
WritesLocal(cmds) == \E i \in 1 .. Len(cmds) : cmds[i].data_ptr # "NULL"

AppFrame ==
    UNCHANGED <<session, store, store_check, store_ok, now, last_update_utc, derive,
                alarm, counters, blob, load_result, break_total, max_accepted,
                request, decoded, durable, hlm, power>>

\* bsp_input_poll_event delivers an event stamped with bsp_get_tick_ms()
\* (a uint32_t, any value once it has wrapped) and the task handles it;
\* the user waits until at most MaxPending commands are still queued.
app_logic_process_button_event ==
    \E e \in ButtonEvents :
        LET b == e.button
            pr == e.pressed
            r == ProcessButton(g_app_state, e)
            q == SendAll(QueueNow, r.sent, 1)
        IN  /\ queue_count <= MaxPending
            /\ g_app_state' = r.g
            /\ accepted_press' = (accepted_press \/ r.processed)
            /\ arg' = 0
            /\ outcome' = (IF r.processed THEN "processed"
                           ELSE IF pr THEN "debounced" ELSE "released")
            /\ command_queue' = q.command_queue
            /\ queue_tail' = q.queue_tail
            /\ queue_count' = q.queue_count
            /\ supplied' = q.supplied
            /\ stack_data' = (IF WritesLocal(r.sent) THEN 1 ELSE stack_data)
            /\ cmd' = "app_logic_process_button_event"
            /\ UNCHANGED <<queue_head, current_screen, current_data, update_task>>
            /\ AppFrame

(***************************************************************************)
(* Power management: ckos_power_insomnia_level and the idle hook            *)
(***************************************************************************)
\* The users of the insomnia counter.
InsomniaUsers == {"HLM", "Storage", "Display"}

\* The CPU executes instructions (it is not halted in WFI or STOP2).
CpuRunning == idle_state \notin {"wfi", "stop2"}

PowerFrame ==
    /\ arg' = 0
    /\ outcome' = "Ok"
    /\ UNCHANGED <<session, store, store_check, store_ok, now, last_update_utc, derive,
                   alarm, counters, blob, load_result, break_total, max_accepted,
                   request, decoded, app, durable, hlm, display>>

\* A module starts a critical operation (memory-wire PWM burst, flash
\* write). Interrupts are masked only inside the call, so the call can
\* run between any two steps of the idle hook.
ckos_power_insomnia_enter ==
    \E m \in InsomniaUsers \ holding :
        /\ CpuRunning
        /\ ckos_power_insomnia_level' = ckos_power_insomnia_level + 1
        /\ holding' = holding \cup {m}
        /\ cmd' = "ckos_power_insomnia_enter"
        /\ UNCHANGED idle_state
        /\ PowerFrame

ckos_power_insomnia_exit ==
    \E m \in holding :
        /\ CpuRunning
        /\ ckos_power_insomnia_level' =
               (IF ckos_power_insomnia_level > 0
                THEN ckos_power_insomnia_level - 1
                ELSE ckos_power_insomnia_level)
        /\ holding' = holding \ {m}
        /\ cmd' = "ckos_power_insomnia_exit"
        /\ UNCHANGED idle_state
        /\ PowerFrame

\* The idle task runs and calls LowPower_EnterIdle.
IdleEnter ==
    /\ idle_state = "running"
    /\ idle_state' = "entered"
    /\ cmd' = "LowPower_EnterIdle"
    /\ UNCHANGED <<ckos_power_insomnia_level, holding>>
    /\ PowerFrame

\* if (ckos_power_insomnia_level > 0) ... else if (expected_idle_time_ticks
\* > MIN_IDLE_TICKS_FOR_DEEP_SLEEP) ...; interrupts stay enabled.
IdleCheck ==
    \E long_idle \in BOOLEAN :
        /\ idle_state = "entered"
        /\ idle_state' = (IF ckos_power_insomnia_level > 0 THEN "light"
                          ELSE IF long_idle THEN "deep" ELSE "short")
        /\ cmd' = "idle_check"
        /\ UNCHANGED <<ckos_power_insomnia_level, holding>>
        /\ PowerFrame

\* BSP_PreSleep_STOP2_Config()
IdlePreSleep ==
    /\ idle_state = "deep"
    /\ idle_state' = "presleep"
    /\ cmd' = "BSP_PreSleep_STOP2_Config"
    /\ UNCHANGED <<ckos_power_insomnia_level, holding>>
    /\ PowerFrame

\* HAL_PWREx_EnterSTOP2Mode(PWR_STOPENTRY_WFI)
IdleEnterStop2 ==
    /\ idle_state = "presleep"
    /\ idle_state' = "stop2"
    /\ cmd' = "HAL_PWREx_EnterSTOP2Mode"
    /\ UNCHANGED <<ckos_power_insomnia_level, holding>>
    /\ PowerFrame

\* __WFI() on the insomnia branch and on the short-idle branch
IdleWFI ==
    /\ idle_state \in {"light", "short"}
    /\ idle_state' = "wfi"
    /\ cmd' = "WFI"
    /\ UNCHANGED <<ckos_power_insomnia_level, holding>>
    /\ PowerFrame

\* An interrupt ends the sleep and the hook returns.
IdleWake ==
    /\ idle_state \in {"wfi", "stop2"}
    /\ idle_state' = "running"
    /\ cmd' = "wake"
    /\ UNCHANGED <<ckos_power_insomnia_level, holding>>
    /\ PowerFrame

(***************************************************************************)
(* Hardware Lock Mechanism: HLM_HandleUnlockRequest and its outcome events  *)
(***************************************************************************)
UnlockFailures == {"HST_EVT_UNLOCK_FAILURE_BLOCKED", "HST_EVT_UNLOCK_FAILURE_LATCH"}

\* REQ_UNLOCK is taken up: current_retry_count = 0, and the while loop is
\* entered only if current_retry_count < max_retries.
HLM_Start ==
    /\ session.operational_state = "LOCK_STATE_PENDING_UNLOCK"
    /\ hlm_state = "idle"
    /\ current_retry_count' = 0
    /\ hlm_state' = (IF 0 < max_retries THEN "attempting" ELSE "returned")
    /\ cmd' = "hlm_start"
    /\ arg' = 0
    /\ outcome' = "Ok"
    /\ UNCHANGED <<session, store, store_check, store_ok, now, last_update_utc, derive,
                   alarm, counters, blob, load_result, break_total, max_accepted,
                   max_retries, notify, request, decoded, app, durable, display, power>>

\* One pass of the loop: actuation, then the latch and ejector sensors.
HLM_Attempt ==
    \E latch_actuated \in BOOLEAN, door_opened \in BOOLEAN :
        /\ hlm_state = "attempting"
        /\ IF latch_actuated
           THEN /\ notify' = (IF door_opened THEN "HST_EVT_UNLOCK_SUCCESS"
                              ELSE "HST_EVT_UNLOCK_FAILURE_BLOCKED")
                /\ hlm_state' = "returned"
                /\ UNCHANGED current_retry_count
           ELSE /\ current_retry_count' = current_retry_count + 1
                /\ IF current_retry_count + 1 >= max_retries
                   THEN /\ notify' = "HST_EVT_UNLOCK_FAILURE_LATCH"
                        /\ hlm_state' = "returned"
                   ELSE UNCHANGED <<notify, hlm_state>>
        /\ cmd' = "hlm_attempt"
        /\ arg' = 0
        /\ outcome' = "Ok"
        /\ UNCHANGED <<session, store, store_check, store_ok, now, last_update_utc, derive,
                       alarm, counters, blob, load_result, break_total, max_accepted,
                       max_retries, request, decoded, app, durable, display, power>>

\* The request is over once the application has left PendingUnlock: the
\* notification has been taken and the next REQ_UNLOCK can be handled.
UnlockRequestDone ==
    /\ hlm_state = "returned"
    /\ session.operational_state # "LOCK_STATE_PENDING_UNLOCK"
    /\ hlm_state' = "idle"
    /\ notify' = "none"
    /\ cmd' = "hlm_done"
    /\ arg' = 0
    /\ outcome' = "Ok"
    /\ UNCHANGED <<session, store, store_check, store_ok, now, last_update_utc, derive,
                   alarm, counters, blob, load_result, break_total, max_accepted,
                   current_retry_count, max_retries, request, decoded, app, durable, display, power>>

\* ApplicationLogic_Task receives the outcome event.
OnUnlockSuccess ==
    /\ notify = "HST_EVT_UNLOCK_SUCCESS"
    /\ CanCompleteUnlock(session)
    /\ CompleteUnlock

OnUnlockFailure ==
    /\ notify \in UnlockFailures
    /\ UnlockFailed

\* Mutant: the caller never times the request out.
TimeoutArmed_Never(s) == FALSE

\* The caller's timeout runs while the unlock request is outstanding.
TimeoutArmed(s) == s.operational_state = "LOCK_STATE_PENDING_UNLOCK"

\* "unlock request timed out": back to Locked.
UnlockTimeout ==
    /\ TimeoutArmed(session)
    /\ UnlockFailed

(***************************************************************************)
(* Specifications                                                          *)
(***************************************************************************)
\* The engine with its clock; rolling keys are sequential.
Next ==
    \/ ClockAdvance
    \/ LockSys_ConfigureLock
    \/ FinalizeConfig
    \/ LockSys_InitiateLock
    \/ AttemptUnlockPin
    \/ AttemptUnlockKey
    \/ AttemptUnlockGrant
    \/ CompleteUnlock
    \/ UnlockFailed
    \/ Tick
    \/ QueryRemaining
    \/ StartBreak
    \/ EndBreak
    \/ Fault
    \/ OperatorReset

Spec == Init /\ [][Next]_vars

\* A Custom lock whose target the Game System moves, with the clock.
ConfigureCustom ==
    /\ LockSys_ConfigureLock
    /\ session'.active_lock_type = "LOCK_TYPE_CUSTOM" \/ session' = session

NextGames ==
    \/ ClockAdvance
    \/ ConfigureCustom
    \/ FinalizeConfig
    \/ LockSys_InitiateLock
    \/ AttemptUnlockGrant
    \/ CompleteUnlock
    \/ Tick
    \/ QueryRemaining
    \/ StartBreak
    \/ EndBreak
    \/ AdjustTarget

SpecGames == Init /\ [][NextGames]_vars

\* One configuration request, drawn from every uint32 duration with and
\* without confirmation and from PINs of every length up to one past the
\* buffer, all digits or with one other character, carried out at any time
\* the clock can show.
\* '/' and ':' are the neighbours of '0' and '9'; 'a' is a letter.
NonDigits == {47, 58, 97}

PinSamples ==
    {Repeated(49, n) : n \in 0 .. (PIN_MAX_LENGTH + 1)}
    \cup {[Repeated(49, n) EXCEPT ![i] = ch] :
             n \in 1 .. (PIN_MAX_LENGTH + 1), i \in {1, PIN_MAX_LENGTH + 1}, ch \in NonDigits}
    \cup {[Repeated(57, PIN_MAX_LENGTH) EXCEPT ![i] = 48] : i \in 1 .. PIN_MAX_LENGTH}

ConfigRequests ==
    {<<"LOCK_TYPE_CUSTOM", CustomLockConfig_t(d), c>> :
        d \in 0 .. (U32_MOD - 1), c \in BOOLEAN}
    \cup {<<"LOCK_TYPE_KEYHOLDER_BASIC", KeyholderBasicLockConfig_t(p), TRUE>> :
            p \in PinSamples}

InitConfig ==
    /\ session = DefaultSession
    /\ store = DefaultSession
    /\ now \in 0 .. (U32_MOD - 1)
    /\ last_update_utc = 0
    /\ derive = SequentialKeys
    /\ cmd = "boot"
    /\ arg = 0
    /\ outcome = "Ok"
    /\ break_total = 0
    /\ max_accepted = NoKeyAccepted
    /\ counters = NoTimeCounted
    /\ store_ok = TRUE
    /\ store_check = "ok"
    /\ blob = <<>>
    /\ load_result = "none"
    /\ alarm = 0
    /\ request \in ConfigRequests
    /\ decoded = <<>>
    /\ HlmAtRest
    /\ DisplayAtRest
    /\ PowerAtRest
    /\ AppAtRest
    /\ DurableAtRest

ConfigureRequested == ConfigureLock(request)

NextConfig ==
    \/ ConfigureRequested
    \/ FinalizeConfig
    \/ LockSys_InitiateLock
    \/ AttemptUnlockPin
    \/ AttemptUnlockGrant
    \/ CompleteUnlock

SpecConfig == InitConfig /\ [][NextConfig]_vars

\* Serialization and deserialization of one session or counter value.
InitSerial ==
    /\ session = DefaultSession
    /\ store = DefaultSession
    /\ now = 1
    /\ last_update_utc = 0
    /\ derive = SequentialKeys
    /\ cmd = "boot"
    /\ arg = 0
    /\ outcome = "Ok"
    /\ break_total = 0
    /\ max_accepted = NoKeyAccepted
    /\ counters = NoTimeCounted
    /\ store_ok = TRUE
    /\ store_check = "ok"
    /\ blob = <<>>
    /\ load_result = "none"
    /\ alarm = 0
    /\ request \in SerialRequests
    /\ decoded = <<>>
    /\ HlmAtRest
    /\ DisplayAtRest
    /\ PowerAtRest
    /\ AppAtRest
    /\ DurableAtRest

NextSerial ==
    \/ SerializeRequested
    \/ DeserializeBlob

SpecSerial == InitSerial /\ [][NextSerial]_vars

\* The display queue with its senders and the display task, after
\* display_task_init.
NextDisplay ==
    \/ display_task_send_command
    \/ TimezoneSetupPress
    \/ StackReuse
    \/ display_task_update

SpecDisplay == Init /\ [][NextDisplay]_vars

(***************************************************************************)
(* complete_unlock and its two store writes, with power loss                *)
(***************************************************************************)
TimedConfigs ==
    {[type |-> "LOCK_TYPE_AGENT", config |-> AgentLockConfig_t(id)] :
         id \in 0 .. CONFIG_AGENT_COUNT - 1}
        \cup {[type |-> "LOCK_TYPE_CUSTOM", config |-> CustomLockConfig_t(MinDuration)]}

KeyholderConfigs ==
    {[type |-> "LOCK_TYPE_KEYHOLDER_BASIC", config |-> KeyholderBasicLockConfig_t(Pin8)],
     [type |-> "LOCK_TYPE_KEYHOLDER_REMOTE",
      config |-> KeyholderRemoteLockConfig_t(0, 0, 0, 0)]}

\* Sessions whose unlock credential has been accepted.
PendingSessions ==
    {[DefaultSession EXCEPT
         !.active_lock_type = t.type,
         !.operational_state = "LOCK_STATE_PENDING_UNLOCK",
         !.mode_config = t.config,
         !.utc_lock_start_time = 1,
         !.utc_unlock_target_time = (IF t \in TimedConfigs THEN 1 + MinDuration ELSE 0),
         !.current_session_accumulated_time_seconds = a] :
       t \in TimedConfigs \cup KeyholderConfigs, a \in 1 .. MaxAccumulated}

InitCrash ==
    /\ session \in PendingSessions
    /\ store = session
    /\ completing = session
    /\ stored_counters = NoTimeCounted
    /\ counters = NoTimeCounted
    /\ now = MaxNow
    /\ last_update_utc = MaxNow
    /\ derive = SequentialKeys
    /\ cmd = "boot"
    /\ arg = 0
    /\ outcome = "Ok"
    /\ break_total = 0
    /\ max_accepted = NoKeyAccepted
    /\ store_ok = TRUE
    /\ store_check = "ok"
    /\ blob = <<>>
    /\ load_result = "none"
    /\ alarm = 0
    /\ request = <<>>
    /\ decoded = <<>>
    /\ HlmAtRest
    /\ DisplayAtRest
    /\ PowerAtRest
    /\ AppAtRest

CrashFrame ==
    /\ arg' = 0
    /\ outcome' = "Ok"
    /\ UNCHANGED <<store_check, store_ok, now, last_update_utc, derive, alarm, blob,
                   load_result, break_total, max_accepted, request, decoded, completing,
                   app, hlm, display, power>>

\* complete_unlock in memory: the session time goes into the counter of
\* the lock type and the session is reset. The counter is capped so that
\* repeated confirmations stay bounded.
ConfirmUnlock ==
    /\ cmd \in {"boot", "startup"}
    /\ CanCompleteUnlock(session)
    /\ counters[CounterOf(session)] <= MaxAccumulated
    /\ counters' = SessionCounted(counters, session)
    /\ session' = DefaultSession
    /\ cmd' = "complete_unlock"
    /\ UNCHANGED <<store, stored_counters>>
    /\ CrashFrame

\* PersistenceStore::write of the TimeCounters key.
WriteCounters ==
    /\ cmd \in {"complete_unlock", "write_session"}
    /\ stored_counters' = counters
    /\ cmd' = (IF cmd = "complete_unlock" THEN "write_counters" ELSE "persisted")
    /\ UNCHANGED <<session, store, counters>>
    /\ CrashFrame

\* PersistenceStore::write of the LockSession key.
WriteSession ==
    /\ cmd \in {"complete_unlock", "write_counters"}
    /\ store' = session
    /\ cmd' = (IF cmd = "complete_unlock" THEN "write_session" ELSE "persisted")
    /\ UNCHANGED <<session, counters, stored_counters>>
    /\ CrashFrame

\* Power is lost and the device starts again: memory is gone, both blobs
\* are loaded from the store.
PowerLoss ==
    /\ cmd \in {"complete_unlock", "write_counters", "write_session", "persisted"}
    /\ session' = LoadSession(store, store_check)
    /\ counters' = stored_counters
    /\ cmd' = "startup"
    /\ UNCHANGED <<store, stored_counters>>
    /\ CrashFrame

NextCrash ==
    \/ ConfirmUnlock
    \/ WriteCounters
    \/ WriteSession
    \/ PowerLoss

SpecCrash == InitCrash /\ [][NextCrash]_vars

NextPreempt ==
    \/ PreemptingSend
    \/ UpdateBegin
    \/ UpdateProcess
    \/ UpdateAdvanceHead
    \/ UpdateDecrement
    \/ UpdateLoadCount
    \/ UpdateStoreCount

SpecPreempt == Init /\ [][NextPreempt]_vars

\* The user interface after app_logic_init: display_task_init has run and
\* the welcome screen has been activated.
InitApp ==
    /\ session = DefaultSession
    /\ store = DefaultSession
    /\ now = 1
    /\ last_update_utc = 0
    /\ derive = SequentialKeys
    /\ cmd = "boot"
    /\ arg = 0
    /\ outcome = "Ok"
    /\ break_total = 0
    /\ max_accepted = NoKeyAccepted
    /\ counters = NoTimeCounted
    /\ store_ok = TRUE
    /\ store_check = "ok"
    /\ blob = <<>>
    /\ load_result = "none"
    /\ alarm = 0
    /\ request = <<>>
    /\ decoded = <<>>
    /\ HlmAtRest
    /\ PowerAtRest
    /\ AppAtRest
    /\ DurableAtRest
    /\ command_queue = [i \in QueueSlots |-> ZeroCommand]
    /\ queue_head = 0
    /\ queue_tail = 1 % CONFIG_DISPLAY_COMMAND_QUEUE_SIZE
    /\ queue_count = 1
    /\ supplied = <<[data |-> 0, command |-> Activation("SCREEN_ID_WELCOME", "NULL")]>>
    /\ current_screen = "SCREEN_ID_WELCOME"
    /\ current_data = 0
    /\ stack_data = 0
    /\ update_task = [pc |-> "idle", count |-> 0]

NextApp ==
    \/ app_logic_process_button_event
    \/ display_task_update

SpecApp == InitApp /\ [][NextApp]_vars

\* The idle hook interleaved with the modules that hold the system awake.
NextPower ==
    \/ ckos_power_insomnia_enter
    \/ ckos_power_insomnia_exit
    \/ IdleEnter
    \/ IdleCheck
    \/ IdlePreSleep
    \/ IdleEnterStop2
    \/ IdleWFI
    \/ IdleWake

SpecPower == Init /\ [][NextPower]_vars

\* Unlock requests carried out by the hardware lock mechanism, for every
\* configured number of retries.
InitUnlock ==
    /\ session = DefaultSession
    /\ store = DefaultSession
    /\ now = 1
    /\ last_update_utc = 0
    /\ derive = SequentialKeys
    /\ cmd = "boot"
    /\ arg = 0
    /\ outcome = "Ok"
    /\ break_total = 0
    /\ max_accepted = NoKeyAccepted
    /\ counters = NoTimeCounted
    /\ store_ok = TRUE
    /\ store_check = "ok"
    /\ blob = <<>>
    /\ load_result = "none"
    /\ alarm = 0
    /\ request = <<>>
    /\ decoded = <<>>
    /\ hlm_state = "idle"
    /\ current_retry_count = 0
    /\ max_retries \in 0 .. MaxRetries
    /\ notify = "none"
    /\ DisplayAtRest
    /\ PowerAtRest
    /\ AppAtRest
    /\ DurableAtRest

NextUnlock ==
    \/ LockSys_ConfigureLock
    \/ FinalizeConfig
    \/ LockSys_InitiateLock
    \/ AttemptUnlockPin
    \/ AttemptUnlockGrant
    \/ HLM_Start
    \/ HLM_Attempt
    \/ UnlockRequestDone
    \/ OnUnlockSuccess
    \/ OnUnlockFailure
    \/ UnlockTimeout

SpecUnlock == InitUnlock /\ [][NextUnlock]_vars

\* The tasks are scheduled and the caller's timeout expires.
SpecUnlockLive ==
    /\ SpecUnlock
    /\ WF_vars(HLM_Start)
    /\ WF_vars(HLM_Attempt)
    /\ WF_vars(OnUnlockSuccess)
    /\ WF_vars(OnUnlockFailure)
    /\ WF_vars(UnlockTimeout)

\* The rolling-key validators of a remote keyholder lock, for every
\* derivation table, at a fixed time.
InitKeys ==
    /\ session = DefaultSession
    /\ store = DefaultSession
    /\ now = 1
    /\ last_update_utc = 0
    /\ derive \in DeriveTables
    /\ cmd = "boot"
    /\ arg = 0
    /\ outcome = "Ok"
    /\ break_total = 0
    /\ max_accepted = NoKeyAccepted
    /\ counters = NoTimeCounted
    /\ store_ok = TRUE
    /\ store_check = "ok"
    /\ blob = <<>>
    /\ load_result = "none"
    /\ alarm = 0
    /\ OthersAtRest

PairRemote ==
    /\ LockSys_ConfigureLock
    /\ IsRemote(session') \/ session' = session

NextKeys ==
    \/ PairRemote
    \/ FinalizeConfig
    \/ LockSys_InitiateLock
    \/ AttemptUnlockKey
    \/ UnlockFailed
    \/ CompleteUnlock
    \/ CleaningKey
    \/ EndBreak
    \/ ConfigKey
    \/ Startup

SpecKeys == InitKeys /\ [][NextKeys]_vars

\* The engine over a store that can fail its writes and lose its blob, with
\* restarts from the stored session, at a fixed time.
NextStore ==
    \/ LockSys_ConfigureLock
    \/ FinalizeConfig
    \/ LockSys_InitiateLock
    \/ AttemptUnlockPin
    \/ AttemptUnlockKey
    \/ CompleteUnlock
    \/ UnlockFailed
    \/ Tick
    \/ StartBreak
    \/ EndBreak
    \/ StoreHealth
    \/ CorruptStore
    \/ Startup

SpecStore == Init /\ [][NextStore]_vars

\* Blobs saved, damaged by one bit, and loaded.
NextCrc ==
    \/ SaveBlob
    \/ FlipBlobBit
    \/ LoadBlob

SpecCrc == Init /\ [][NextCrc]_vars


(***************************************************************************)
(* Properties                                                              *)
(***************************************************************************)
EngineCommands == {"configure", "initiate", "attempt_unlock", "start_break",
                   "end_break", "complete_unlock"}

Rejections == {"InvalidStateTransition", "InvalidConfig", "WrongCredential",
               "ReplayedOrOutOfWindow"}

OpState == session.operational_state

\* C1: a Locked or BreakActive session never becomes Unlocked directly; the
\* Unlocked state is entered only from PendingUnlock by complete_unlock or
\* from Error by the operator reset, PendingUnlock is entered only from
\* Locked by an accepted attempt_unlock, and an accepted attempt_unlock
\* leaves the session in PendingUnlock, never in Unlocked.
C1_UnlockNeedsConfirmation ==
    [][ /\ (OpState \in {"LOCK_STATE_LOCKED", "LOCK_STATE_BREAK_ACTIVE"}
              => OpState' # "LOCK_STATE_UNLOCKED")
        /\ (OpState # "LOCK_STATE_UNLOCKED" /\ OpState' = "LOCK_STATE_UNLOCKED"
              => \/ OpState = "LOCK_STATE_PENDING_UNLOCK" /\ cmd' = "complete_unlock"
                 \/ OpState = "LOCK_STATE_ERROR" /\ cmd' = "operator_reset")
        /\ (OpState # "LOCK_STATE_PENDING_UNLOCK" /\ OpState' = "LOCK_STATE_PENDING_UNLOCK"
              => OpState = "LOCK_STATE_LOCKED" /\ cmd' = "attempt_unlock" /\ outcome' = "Ok")
        /\ (cmd' = "attempt_unlock" /\ outcome' = "Ok"
              => OpState' = "LOCK_STATE_PENDING_UNLOCK")
      ]_vars

C1_Witness ==
    /\ cmd = "attempt_unlock"
    /\ outcome = "Ok"
    /\ OpState = "LOCK_STATE_PENDING_UNLOCK"
    /\ session.active_lock_type = "LOCK_TYPE_KEYHOLDER_BASIC"

\* C3: after every operation the unlock target is 0 or not before the lock
\* start.
C3_TargetNotBeforeStart ==
    \/ session.utc_unlock_target_time = 0
    \/ session.utc_unlock_target_time >= session.utc_lock_start_time

\* The states in which each engine command is accepted.
AcceptingStates(c) ==
    CASE c = "configure" -> {"LOCK_STATE_UNLOCKED", "LOCK_STATE_CONFIGURING"}
      [] c = "initiate" -> {"LOCK_STATE_AWAITING_DOOR_CLOSE"}
      [] c = "attempt_unlock" -> {"LOCK_STATE_LOCKED"}
      [] c = "start_break" -> {"LOCK_STATE_LOCKED"}
      [] c = "end_break" -> {"LOCK_STATE_BREAK_ACTIVE"}
      [] c = "complete_unlock" -> {"LOCK_STATE_PENDING_UNLOCK"}

C5_RejectionChangesNothing ==
    [][ cmd' \in EngineCommands /\ outcome' \in Rejections =>
          session' = session /\ store' = store
      ]_vars

C5_Witness ==
    /\ cmd = "attempt_unlock"
    /\ outcome = "ReplayedOrOutOfWindow"
    /\ IsRemote(session)
    /\ OpState = "LOCK_STATE_LOCKED"
    /\ store # session

C7_TargetExtendedByBreak ==
    [][ cmd' = "end_break" /\ OpState = "LOCK_STATE_BREAK_ACTIVE" =>
          IF session.utc_unlock_target_time # 0
          THEN session'.utc_unlock_target_time =
                 session.utc_unlock_target_time + (now - session.utc_break_start_time)
          ELSE session'.utc_unlock_target_time = 0
      ]_vars

InSession ==
    OpState \in {"LOCK_STATE_LOCKED", "LOCK_STATE_PENDING_UNLOCK", "LOCK_STATE_BREAK_ACTIVE"}

\* C8: the session time never includes break time: it is at most the time
\* since the lock start less the time spent in BreakActive, and no step taken
\* in BreakActive that stays in BreakActive (a tick included) changes it.
C8_BreakTimeNotCredited ==
    /\ [](InSession =>
            session.current_session_accumulated_time_seconds + break_total
              <= now - session.utc_lock_start_time)
    /\ [][ OpState = "LOCK_STATE_BREAK_ACTIVE" /\ OpState' = "LOCK_STATE_BREAK_ACTIVE" =>
             session'.current_session_accumulated_time_seconds =
               session.current_session_accumulated_time_seconds
         ]_vars

C8_Witness ==
    /\ cmd = "tick"
    /\ OpState = "LOCK_STATE_LOCKED"
    /\ break_total > 0
    /\ session.current_session_accumulated_time_seconds > 0
    /\ session.current_session_accumulated_time_seconds + break_total
         = now - session.utc_lock_start_time

KeyIndexOf(s, kind) ==
    CASE kind = "unlock" -> s.mode_config.current_unlock_key_index
      [] kind = "cleaning" -> s.mode_config.current_cleaning_key_index
      [] kind = "config" -> s.mode_config.current_config_key_index

KeyCommand(kind) ==
    CASE kind = "unlock" -> "attempt_unlock"
      [] kind = "cleaning" -> "cleaning_key"
      [] kind = "config" -> "config_key"

\* A key of the given kind was presented to a Locked remote session.
KeyPresented(kind) ==
    /\ cmd' = KeyCommand(kind)
    /\ IsRemote(session)
    /\ OpState = "LOCK_STATE_LOCKED"

Window(cur) == cur .. (cur + KEY_WINDOW_SIZE - 1)

\* C11: while a remote keyholder configuration lives (the session stays a
\* remote keyholder session and is not configured anew), none of its three
\* key indices decreases in any step: accepted and rejected keys, breaks,
\* saves and restarts from the stored session included.
C11_KeyIndicesMonotone ==
    [][ IsRemote(session) /\ IsRemote(session') /\ cmd' # "configure" =>
          \A kind \in KeyKinds : KeyIndexOf(session', kind) >= KeyIndexOf(session, kind)
      ]_vars

\* A restart restored indices that had advanced.
C11_Witness ==
    /\ cmd = "startup"
    /\ outcome = "Ok"
    /\ IsRemote(session)
    /\ KeyIndexOf(session, "unlock") > 1
    /\ KeyIndexOf(session, "cleaning") > 0
    /\ KeyIndexOf(session, "config") > 0

\* C14: a saved blob loaded after one of its bits, in the payload or in the
\* CRC, was flipped gives IntegrityError.
C14_BitFlipDetected ==
    [][ cmd = "flip_bit" /\ cmd' = "load_blob" => load_result' = "IntegrityError" ]_vars

\* C15: a startup that finds the stored blob failing its CRC check or
\* carrying an unknown version reports IntegrityError and continues with the
\* default session, whatever the stored session holds.
C15_IntegrityFallback ==
    [][ cmd' = "startup" =>
          IF store_check = "ok"
          THEN outcome' = "Ok" /\ session' = store
          ELSE outcome' = "IntegrityError" /\ session' = DefaultSession
      ]_vars

C15_Witness ==
    /\ cmd = "startup"
    /\ outcome = "IntegrityError"
    /\ store_check = "bad_version"
    /\ store.operational_state = "LOCK_STATE_LOCKED"
    /\ session = DefaultSession

Successes == {"Ok", "OnTime", "Overdue"}

C12_InitiateEffect ==
    [][ cmd' = "initiate" /\ outcome' = "Ok" =>
          /\ OpState = "LOCK_STATE_AWAITING_DOOR_CLOSE"
          /\ session'.utc_lock_start_time = now
          /\ session'.utc_unlock_target_time =
                (IF session.active_lock_type = "LOCK_TYPE_CUSTOM"
                 THEN now + session.mode_config.duration_seconds ELSE 0)
          /\ session'.current_session_accumulated_time_seconds = 0
          /\ OpState' = "LOCK_STATE_LOCKED"
      ]_vars

\* The counter that a session of this type and agent belongs to.
BucketOf(type, cfg) ==
    CASE type = "LOCK_TYPE_AGENT" /\ cfg.agent_id = 0 -> "agent_beginner"
      [] type = "LOCK_TYPE_AGENT" /\ cfg.agent_id = 1 -> "agent_advanced"
      [] type = "LOCK_TYPE_AGENT" /\ cfg.agent_id = 2 -> "agent_permanent"
      [] type = "LOCK_TYPE_CUSTOM" -> "custom"
      [] type = "LOCK_TYPE_KEYHOLDER_BASIC" -> "keyholder_basic"
      [] type = "LOCK_TYPE_KEYHOLDER_REMOTE" -> "keyholder_remote"

\* C13: an accepted complete_unlock adds the session time to the counter of
\* the session's lock type and agent sub-type, leaves the other five counters
\* as they were, and resets the session to the default unlocked session.
C13_CompletionCounted ==
    [][ cmd' = "complete_unlock" /\ outcome' = "Ok" =>
          LET b == BucketOf(session.active_lock_type, session.mode_config) IN
          /\ counters'[b] = counters[b] + session.current_session_accumulated_time_seconds
          /\ \A o \in Buckets \ {b} : counters'[o] = counters[o]
          /\ session' = DefaultSession
      ]_vars

C13_Witness ==
    /\ cmd = "complete_unlock"
    /\ outcome = "Ok"
    /\ session = DefaultSession
    /\ counters["agent_permanent"] > 0
    /\ counters["custom"] > 0

C19_TickIdempotent ==
    [][ cmd' = "tick" =>
          (Accrues(session') =>
             Accrued(session', now', last_update_utc') = session')
      ]_vars

C19_Witness ==
    /\ cmd = "tick"
    /\ OpState = "LOCK_STATE_LOCKED"
    /\ last_update_utc = now
    /\ break_total = 0
    /\ session.current_session_accumulated_time_seconds = now - session.utc_lock_start_time
    /\ session.current_session_accumulated_time_seconds > 1

\* C20: remaining_seconds is 0 when the unlock target is 0 or not after now,
\* and target - now otherwise; the query changes neither the session nor the
\* persisted session.
C20_RemainingSeconds ==
    [][ cmd' = "remaining_seconds" =>
          /\ arg' = (IF session.utc_unlock_target_time = 0
                        \/ session.utc_unlock_target_time <= now
                     THEN 0
                     ELSE session.utc_unlock_target_time - now)
          /\ session' = session
          /\ store' = store
      ]_vars

\* The query at the very second of the target.
C20_Witness ==
    /\ cmd = "remaining_seconds"
    /\ session.utc_unlock_target_time # 0
    /\ session.utc_unlock_target_time = now
    /\ arg = 0

\* C2: for each kind, a key that derives to an index at or below an index
\* already accepted is rejected.
C2_ReplayRejected ==
    [][ \A kind \in KeyKinds :
          KeyPresented(kind) /\ outcome' = "Ok" =>
            ~(\E i \in 0 .. max_accepted[kind] : derive[i] = arg')
      ]_vars

AlarmRequests == {"initiate", "start_break", "end_break"}

AlarmRequested ==
    /\ (cmd' = "initiate" /\ outcome' = "Ok" /\ session'.utc_unlock_target_time # 0)
        => alarm' = session'.utc_unlock_target_time
    /\ (cmd' = "start_break" /\ outcome' = "Ok")
        => alarm' = session'.utc_break_start_time + session'.break_allowed_duration_seconds
    /\ (cmd' = "end_break" /\ outcome' \in {"OnTime", "Overdue"}
         /\ session'.utc_unlock_target_time # 0)
        => alarm' = session'.utc_unlock_target_time
    /\ (alarm' # alarm)
        => (cmd' \in AlarmRequests /\ outcome' \in {"Ok", "OnTime", "Overdue"})

BreakAlarmActive ==
    OpState = "LOCK_STATE_BREAK_ACTIVE"
    => alarm = session.utc_break_start_time + session.break_allowed_duration_seconds

CountersFrame ==
    /\ \A b \in Buckets : counters'[b] >= counters[b]
    /\ (counters' # counters) => (cmd' = "complete_unlock" /\ outcome' = "Ok")
    /\ (cmd' \in {"configure", "finalize", "initiate", "attempt_unlock", "tick",
                  "start_break", "end_break", "unlock_failed"})
        => counters' = counters

C26_CountersOnlyGrowAtCompletion == [][CountersFrame]_vars

\* A second session has been counted on top of an earlier one.
C26_Witness ==
    /\ cmd = "complete_unlock"
    /\ outcome = "Ok"
    /\ \E b \in Buckets : counters[b] > 0
    /\ \E b1, b2 \in Buckets : b1 # b2 /\ counters[b1] > 0 /\ counters[b2] > 0

\* C21: configure of a Custom lock accepts the duration exactly when it lies
\* between the minimum and the maximum and, above one year, the caller passed
\* the confirmation; one below the minimum, one above the maximum and an
\* unconfirmed duration above one year are rejected with InvalidConfig and
\* leave the session as it was.
RequestedDuration == request[2].duration_seconds

DurationAcceptable ==
    /\ MinDuration <= RequestedDuration
    /\ RequestedDuration <= MaxDuration
    /\ (RequestedDuration > YearDuration) => request[3]

CustomConfigured ==
    (cmd' = "configure" /\ request[1] = "LOCK_TYPE_CUSTOM" /\ CanConfigure(session))
    => /\ (outcome' = "Ok") <=> DurationAcceptable
       /\ DurationAcceptable
           => /\ session'.active_lock_type = "LOCK_TYPE_CUSTOM"
              /\ session'.mode_config.duration_seconds = RequestedDuration
              /\ session'.operational_state = "LOCK_STATE_CONFIGURING"
       /\ ~DurationAcceptable
           => /\ outcome' = "InvalidConfig"
              /\ session' = session
              /\ store' = store

C21_DurationLimits == [][CustomConfigured]_vars

\* The longest duration has been accepted with the confirmation.
C21_Witness ==
    /\ cmd = "configure"
    /\ outcome = "Ok"
    /\ request[1] = "LOCK_TYPE_CUSTOM"
    /\ RequestedDuration = MaxDuration
    /\ request[3]
    /\ session.mode_config = CustomLockConfig_t(MaxDuration)

\* C22: a KeyholderBasic PIN is accepted exactly when it has 8 characters,
\* each a digit '0'..'9'; any other length, 4 to 7 digits included, and any
\* other character is rejected.
RequestedPin == request[2].pin

EightDigits(pin) ==
    /\ Len(pin) = 8
    /\ \A i \in 1 .. Len(pin) : pin[i] \in 48 .. 57

PinConfigured ==
    (cmd' = "configure" /\ request[1] = "LOCK_TYPE_KEYHOLDER_BASIC"
     /\ CanConfigure(session))
    => /\ (outcome' = "Ok") <=> EightDigits(RequestedPin)
       /\ ~EightDigits(RequestedPin) => (outcome' = "InvalidConfig" /\ session' = session)

C22_PinExactlyEightDigits == [][PinConfigured]_vars

\* C25: whenever the session is Locked its lock start time is greater than
\* 0, whatever time the clock showed when the lock was initiated.
C25_LockedHasStart ==
    OpState = "LOCK_STATE_LOCKED" => session.utc_lock_start_time > 0

\* C24: a session that has entered PendingUnlock eventually leaves it, and
\* leaves it only to Unlocked by complete_unlock on the hardware's
\* confirmation, or back to Locked on a reported failure or the timeout.
PendingUnlock == OpState = "LOCK_STATE_PENDING_UNLOCK"

LeavesPendingUnlock ==
    (PendingUnlock /\ session'.operational_state # "LOCK_STATE_PENDING_UNLOCK")
    => \/ /\ cmd' = "complete_unlock"
          /\ notify = "HST_EVT_UNLOCK_SUCCESS"
          /\ session'.operational_state = "LOCK_STATE_UNLOCKED"
       \/ /\ cmd' = "unlock_failed"
          /\ session'.operational_state = "LOCK_STATE_LOCKED"

SendContract ==
    (cmd' = "display_task_send_command")
    => IF (~request'.null) /\ (queue_count < CONFIG_DISPLAY_COMMAND_QUEUE_SIZE)
       THEN /\ outcome' = "true"
            /\ command_queue' = [command_queue EXCEPT ![queue_tail] = request'.command]
            /\ queue_tail' = (queue_tail + 1) % CONFIG_DISPLAY_COMMAND_QUEUE_SIZE
            /\ queue_count' = queue_count + 1
            /\ queue_head' = queue_head
       ELSE /\ outcome' = "false"
            /\ UNCHANGED <<command_queue, queue_head, queue_tail, queue_count>>

C29_SendCommandContract == [][SendContract]_vars

\* A non-NULL command was refused because the queue was full.
C29_Witness ==
    /\ cmd = "display_task_send_command"
    /\ outcome = "false"
    /\ ~request.null
    /\ queue_count = CONFIG_DISPLAY_COMMAND_QUEUE_SIZE

\* C28: the data the display task applies for an ACTIVATE_SCREEN command is
\* the data the sender supplied when it called display_task_send_command.
AppliesSuppliedData ==
    (/\ cmd' = "display_task_update"
     /\ queue_count > 0
     /\ command_queue[queue_head].id = "DISPLAY_CMD_ACTIVATE_SCREEN"
     /\ command_queue[queue_head].data_ptr # "NULL")
    => (current_data' = Head(supplied).data)

C28_ScreenDataCopiedAtSend == [][AppliesSuppliedData]_vars

\* C30: STOP2 is entered only when ckos_power_insomnia_level is 0 at the
\* moment of entry, that is when no module is between its
\* ckos_power_insomnia_enter and its ckos_power_insomnia_exit.
EntersStop2Awake ==
    (idle_state # "stop2" /\ idle_state' = "stop2")
    => (ckos_power_insomnia_level = 0 /\ holding = {})

C30_Stop2OnlyWithoutInsomnia == [][EntersStop2Awake]_vars

\* C27: deserializing the serialized form of a LockSession or of the
\* TimeCounters gives back a value equal to the original in every field.
C27_RoundTripLossless == (cmd = "deserialize") => (decoded = request.value)

\* A session with the largest break allowance has made the round trip.
C27_Witness ==
    /\ cmd = "deserialize"
    /\ request.kind = "session"
    /\ request.value.break_allowed_duration_seconds = 65535
    /\ request.value.utc_unlock_target_time = 2147483647
    /\ decoded = request.value

\* C31: the target stored by initiate for a Custom lock, and by end_break for
\* a timed session, is the mathematical sum (no 32-bit wrap-around), so it is
\* neither 0 nor below the lock start.
SumsWithoutWrap ==
    /\ (cmd' = "initiate" /\ outcome' = "Ok"
        /\ session.active_lock_type = "LOCK_TYPE_CUSTOM")
       => (/\ session'.utc_unlock_target_time = now + session.mode_config.duration_seconds
           /\ session'.utc_unlock_target_time # 0
           /\ session'.utc_unlock_target_time >= session'.utc_lock_start_time)
    /\ (cmd' = "end_break" /\ outcome' = "Ok" /\ OpState = "LOCK_STATE_BREAK_ACTIVE"
        /\ session.utc_unlock_target_time # 0)
       => (/\ session'.utc_unlock_target_time =
                 session.utc_unlock_target_time + (now - session.utc_break_start_time)
           /\ session'.utc_unlock_target_time >= session'.utc_lock_start_time)

C31_NoWrapAround == [][SumsWithoutWrap]_vars

\* C37: when HLM_HandleUnlockRequest returns it has made at most max_retries
\* failed actuation attempts and has sent exactly one of the three outcome
\* events to the application task.
UnlockEvents ==
    {"HST_EVT_UNLOCK_SUCCESS", "HST_EVT_UNLOCK_FAILURE_BLOCKED",
     "HST_EVT_UNLOCK_FAILURE_LATCH"}

ReturnsWithOneEvent ==
    (hlm_state # "returned" /\ hlm_state' = "returned")
    => (/\ notify = "none"
        /\ notify' \in UnlockEvents
        /\ current_retry_count' <= max_retries)

C37_RetryLoopNotifiesOnce == [][ReturnsWithOneEvent]_vars


(***************************************************************************)
(* Claims about the application logic                                      *)
(***************************************************************************)
\* The screen that belongs to an application state.
ScreenOf(state) ==
    CASE state = "STATE_WELCOME" -> "SCREEN_ID_WELCOME"
      [] state = "STATE_TIMEZONE_SETUP" -> "SCREEN_ID_TIMEZONE_SETUP"
      [] state = "STATE_TIME_SETUP" -> "SCREEN_ID_TIME_SETUP"
      [] state = "STATE_MENU" -> "SCREEN_ID_MAIN_MENU"
      [] state = "STATE_SETTINGS" -> "SCREEN_ID_SETTINGS"
      [] OTHER -> "SCREEN_ID_NONE"

\* C33: once a press has been handled and the display task has processed
\* every queued command, the displayed screen is the one that belongs to
\* the application state.
C33_ScreenFollowsState ==
    (accepted_press /\ queue_count = 0)
    => (current_screen = ScreenOf(g_app_state.current_state))

PressHandled == cmd' = "app_logic_process_button_event"

FirstPressProcessed ==
    (PressHandled /\ ~accepted_press /\ outcome' # "released")
    => (outcome' = "processed")

ReleaseIgnored ==
    (PressHandled /\ outcome' = "released")
    => (g_app_state' = g_app_state /\ queue_count' = queue_count)

ProcessedOutsideDebounce ==
    (PressHandled /\ outcome' = "processed" /\ accepted_press)
    => ~(/\ g_app_state'.last_button = g_app_state.last_button
         /\ TickDiff(g_app_state'.last_button_time, g_app_state.last_button_time)
                < BUTTON_DEBOUNCE_MS)

DebounceContract == FirstPressProcessed /\ ReleaseIgnored /\ ProcessedOutsideDebounce

\* C38: a press is ignored only when it repeats the last accepted press
\* within the debounce time; the first press after app_logic_init and every
\* press outside the debounce time are processed; a release changes nothing.
C38_DebounceExactlyRepeats == [][DebounceContract]_vars

SelectionInWindow(selection, visible_start, max_items, max_visible) ==
    /\ selection \in 0 .. max_items - 1
    /\ visible_start <= selection
    /\ selection <= visible_start + max_visible - 1
    /\ visible_start >= 0
    /\ visible_start + max_visible <= max_items

\* C39: in STATE_MENU and STATE_SETTINGS the selection is a valid index and
\* lies inside the visible window, and the window lies inside the list.
C39_SelectionInsideWindow ==
    /\ g_app_state.current_state = "STATE_MENU"
       => SelectionInWindow(g_app_state.menu_selection, g_app_state.menu_visible_start,
                            MAIN_MENU_COUNT, max_visible_menu_items)
    /\ g_app_state.current_state = "STATE_SETTINGS"
       => SelectionInWindow(g_app_state.settings_selection,
                            g_app_state.settings_visible_start,
                            SETTINGS_COUNT, max_visible_settings_items)

\* DOWN presses have moved the menu selection to the last entry and the
\* window has scrolled to the end of the list.
C39_Witness ==
    /\ g_app_state.current_state = "STATE_MENU"
    /\ g_app_state.menu_selection = MAIN_MENU_COUNT - 1
    /\ g_app_state.menu_visible_start = MAIN_MENU_COUNT - max_visible_menu_items
    /\ g_app_state.menu_visible_start > 0
    /\ g_app_state.settings_selection = SETTINGS_COUNT - 1

UndefinedButtonPressed ==
    /\ PressHandled
    /\ outcome' = "processed"
    /\ g_app_state'.last_button = "BSP_BUTTON_COUNT"

NavigationUntouched ==
    /\ g_app_state'.current_state = g_app_state.current_state
    /\ g_app_state'.menu_selection = g_app_state.menu_selection
    /\ g_app_state'.settings_selection = g_app_state.settings_selection
    /\ g_app_state'.timezone_offset_hours = g_app_state.timezone_offset_hours
    /\ g_app_state'.dst_active = g_app_state.dst_active
    /\ g_app_state'.first_boot = g_app_state.first_boot
    /\ g_app_state'.timezone_configured = g_app_state.timezone_configured
    /\ g_app_state'.time_configured = g_app_state.time_configured

UndefinedButtonIgnored == UndefinedButtonPressed => NavigationUntouched

\* C40: a press of a button id outside the six defined buttons changes
\* neither the application state nor a selection, the timezone or a setup
\* flag.
C40_UndefinedButtonChangesNothing == [][UndefinedButtonIgnored]_vars

(***************************************************************************)
(* Claims about the display queue                                          *)
(***************************************************************************)
\* The pending commands are the accepted ones, oldest at queue_head.
QueueHoldsAccepted ==
    /\ queue_count \in 0 .. CONFIG_DISPLAY_COMMAND_QUEUE_SIZE
    /\ Len(supplied) = queue_count
    /\ \A i \in 1 .. Len(supplied) :
           command_queue[(queue_head + i - 1) % CONFIG_DISPLAY_COMMAND_QUEUE_SIZE]
               = supplied[i].command

\* One display_task_update applies the oldest accepted command and no other.
UpdateTakesOldest ==
    (cmd' = "display_task_update")
    => IF queue_count = 0
       THEN queue_count' = 0 /\ current_screen' = current_screen
       ELSE /\ queue_count' = queue_count - 1
            /\ current_screen' =
                   (IF Head(supplied).command.id = "DISPLAY_CMD_ACTIVATE_SCREEN"
                    THEN Head(supplied).command.screen_id ELSE current_screen)

\* C35: the display queue is a FIFO of the configured capacity: the count
\* stays within 0..capacity, one update consumes at most one command, and
\* commands are consumed in the order in which they were accepted.
C35_QueueIsFifo == []QueueHoldsAccepted /\ [][UpdateTakesOldest]_vars

\* An update has run, two different commands are pending and the queue has
\* wrapped around the end of the array.
C35_Witness ==
    /\ cmd = "display_task_update"
    /\ queue_count = 2
    /\ supplied[1].command # supplied[2].command
    /\ queue_tail <= queue_head

ActivationQueued ==
    (cmd' = "app_logic_activate_screen")
    => /\ Len(supplied') = Len(supplied) + 1
       /\ supplied'[Len(supplied')].command = TimezoneCommand

\* C36: no command sent by app_logic_activate_screen is discarded because
\* the display queue is full.
C36_NoActivationDiscarded == [][ActivationQueued]_vars

\* C34: with display_task_send_command preempting display_task_update at
\* any point, whenever no update is in progress queue_count is the number
\* of commands accepted and not yet consumed.
C34_CountMatchesPending == (update_task.pc = "idle") => (queue_count = Len(supplied))

\* The confirmed session's counter in the store.
StoredBucket == stored_counters[CounterOf(completing)]

ConfirmedSeconds == completing.current_session_accumulated_time_seconds

\* C32: after a reload the store holds the confirmed session's seconds in
\* its counter once or not at all, never twice; they are there once the
\* stored session has been reset, and a session whose seconds are not there
\* is still pending.
C32_CountedOnceAcrossPowerLoss ==
    (cmd = "startup")
    => /\ StoredBucket \in {0, ConfirmedSeconds}
       /\ (session = DefaultSession) => (StoredBucket = ConfirmedSeconds)
       /\ (StoredBucket = 0) => CanCompleteUnlock(session)

\* The same without the case of the seconds being counted twice.
NeverLostWithSessionReset ==
    (cmd = "startup" /\ session = DefaultSession) => (StoredBucket >= ConfirmedSeconds)

\* The same without the case of the seconds being lost.
NeverCountedTwice == (cmd = "startup") => (StoredBucket <= ConfirmedSeconds)

====
